---- MODULE Spec2Model ----
(***************************************************************************)
(* Model of ctdcal's SBE911+ frame decoder (hex_to_dataset), its companion *)
(* encoder (ds_to_hex), the channel extractor (get_freq,                   *)
(* get_channel_voltage, hex_to_f, hex_to_v, odf_wrapper) of                *)
(* src/ctdcal/parsers/sbe911.py, and the two schedulers: convert_science   *)
(* of src/ctdcal/processors/sbs.py and cnv_handler_2 of                    *)
(* src/converter_scaffolding.py; of the conversion equations of sbs.py     *)
(* with their checks of coefficients, frequencies and voltages; and of the *)
(* configuration parser parse_xmlcon of sbe911.py.                         *)
(*                                                                         *)
(* A text is a sequence of characters.  A character is written as a TLA+   *)
(* string; the two long tokens PhraseLower / PhraseTitle stand for the 24  *)
(* characters of "number of bytes per scan" (resp. its title-cased form)   *)
(* and count 24 in every length computation.  "CR" and "LF" are the        *)
(* carriage-return and line-feed characters, "TAB" the tab.                *)
(***************************************************************************)
EXTENDS Integers, Sequences, FiniteSets, TLC

VARIABLES
    hex,        \* hex_to_dataset: the input text (argument `hex`)
    errors,     \* hex_to_dataset: the error policy (argument `errors`)
    pc,         \* position of the decode / encode call
    lines,      \* the list hex.splitlines() the for loop iterates over
    lineno,     \* number of the line last taken from enumerate(...)
    comments,   \* local _comments
    out,        \* local out
    datalen,    \* local datalen
    linelen,    \* local linelen: <<>> while unassigned, <<n>> once assigned
    err,        \* the exception that ended the call, NoErr if none
    ds,         \* the returned Dataset, NoDs if none
    encoded,    \* the bytes produced by ds_to_hex, joined
    scans,      \* channel extractor: the byte matrix (argument `hex`)
    eng,        \* channel extractor: the last call and what it returned
    xmlcon_sensors, \* the sensor map, one entry per channel in dict order
    f_s,            \* attrs["f_s"]: frequency channels suppressed
    freq_out,       \* odf_wrapper: what hex_to_f returned
    volt_out,       \* odf_wrapper: what hex_to_v returned (its local v_out)
    engineering,    \* data["engineering"]: the columns, <<>> while not built
    sensor_df,      \* convert_science: the rows of sensor_df, in row order
    science_temp,   \* convert_science: the preallocated columns by position
    rows_done,      \* convert_science: rows of the main loop already done
    science,        \* data["science"]: <<>> while absent, <<columns>> once set
    calls,          \* the equations dispatched so far, with their arguments
    sensor_info,    \* cnv_handler_2: the parsed configuration, by list index
    queue_metadata, \* cnv_handler_2: the queue
    processed_data, \* cnv_handler_2: the processed items
    t_array,        \* cnv_handler_2: primary temperature, <<>> while unset
    p_array,        \* cnv_handler_2: primary pressure, <<>> while unset
    c_array,        \* cnv_handler_2: primary conductivity, <<>> while unset
    k_array,        \* cnv_handler_2: primary temperature in Kelvin
    eq,             \* equations: the call in progress and its arguments
    coefs_in,       \* equations: the coefficient dict the call was handed
    ret,            \* equations: what the call returned or raised
    xmlcon,         \* parse_xmlcon: the parsed element tree
    config_dict,    \* parse_xmlcon: local config_dict
    sensor_dict,    \* parse_xmlcon: local sensor_dict, keyed by sensor index
    positions_done, \* parse_xmlcon: positions of the sensor array handled
    warning         \* parse_xmlcon: whether the size warning was printed

\* the variables of odf_wrapper, of convert_science and of cnv_handler_2
odfVars == <<xmlcon_sensors, f_s, freq_out, volt_out, engineering>>
sciVars == <<sensor_df, science_temp, rows_done, science>>
cnvVars == <<sensor_info, queue_metadata, processed_data, t_array, p_array, c_array, k_array>>
\* the variables of the equations of sbs.py and of parse_xmlcon
eqVars == <<eq, coefs_in, ret>>
xmlVars == <<xmlcon, config_dict, sensor_dict, positions_done, warning>>

vars == <<hex, errors, pc, lines, lineno, comments, out, datalen, linelen, err, ds, encoded, scans, eng,
          odfVars, sciVars, calls, cnvVars, eqVars, xmlVars>>

\* odf_wrapper, convert_science and cnv_handler_2 have not been called
OdfIdle ==
    /\ xmlcon_sensors = <<>>
    /\ f_s = 0
    /\ freq_out = <<>>
    /\ volt_out = <<>>
    /\ engineering = <<>>

SciIdle ==
    /\ sensor_df = <<>>
    /\ science_temp = <<>>
    /\ rows_done = 0
    /\ science = <<>>
    /\ calls = <<>>

CnvIdle ==
    /\ sensor_info = <<>>
    /\ queue_metadata = <<>>
    /\ processed_data = <<>>
    /\ t_array = <<>>
    /\ p_array = <<>>
    /\ c_array = <<>>
    /\ k_array = <<>>

EqIdle ==
    /\ eq = [func |-> "none"]
    /\ coefs_in = <<>>
    /\ ret = <<>>

XmlIdle ==
    /\ xmlcon = <<>>
    /\ config_dict = <<>>
    /\ sensor_dict = <<>>
    /\ positions_done = 0
    /\ warning = FALSE

-----------------------------------------------------------------------------
(* Bounds of the model *)

\* most lines in an input text
MaxLines == 3
\* bytes in a scan row handed to the channel extractor
NumBytes == 6
\* most scans in a byte matrix handed to the channel extractor
MaxScans == 2

-----------------------------------------------------------------------------
(* Characters and strings *)

PhraseLower == "number of bytes per scan"
PhraseTitle == "Number of Bytes Per Scan"

\* len() of one character token
CharLen(c) == IF c \in {PhraseLower, PhraseTitle} THEN 24 ELSE 1

RECURSIVE StrLen(_)
\* len(s)
StrLen(s) == IF s = <<>> THEN 0 ELSE CharLen(Head(s)) + StrLen(Tail(s))

\* str.lower() on one character
LowerChar(c) ==
    CASE c = "A" -> "a" [] c = "B" -> "b" [] c = "C" -> "c"
      [] c = "D" -> "d" [] c = "E" -> "e" [] c = "F" -> "f"
      [] c = "Z" -> "z" [] c = PhraseTitle -> PhraseLower
      [] OTHER -> c

\* str.upper() on one character
UpperChar(c) ==
    CASE c = "a" -> "A" [] c = "b" -> "B" [] c = "c" -> "C"
      [] c = "d" -> "D" [] c = "e" -> "E" [] c = "f" -> "F"
      [] c = "z" -> "Z" [] c = "x" -> "X" [] c = PhraseLower -> "NUMBER OF BYTES PER SCAN"
      [] OTHER -> c

\* s.lower()
Lower(s) == [i \in 1..Len(s) |-> LowerChar(s[i])]

\* s.upper()
Upper(s) == [i \in 1..Len(s) |-> UpperChar(s[i])]

\* Python's ASCII whitespace, as far as it can occur inside a line
IsSpace(c) == c \in {" ", "TAB"}

RECURSIVE Join(_, _)
\* sep.join(parts)
Join(sep, parts) ==
    IF parts = <<>> THEN <<>>
    ELSE IF Len(parts) = 1 THEN parts[1]
    ELSE parts[1] \o sep \o Join(sep, Tail(parts))

RECURSIVE SplitAcc(_, _, _)
\* str.splitlines(): the lines of s, cut at LF, CR LF and CR; cur is the line
\* being collected and acc the lines already closed.  A text that ends in a
\* line break has no empty last line.
SplitAcc(s, cur, acc) ==
    IF s = <<>> THEN (IF cur = <<>> THEN acc ELSE Append(acc, cur))
    ELSE IF Head(s) = "LF" THEN SplitAcc(Tail(s), <<>>, Append(acc, cur))
    ELSE IF Head(s) = "CR" THEN
        IF Len(s) >= 2 /\ s[2] = "LF"
        THEN SplitAcc(Tail(Tail(s)), <<>>, Append(acc, cur))
        ELSE SplitAcc(Tail(s), <<>>, Append(acc, cur))
    ELSE SplitAcc(Tail(s), Append(cur, Head(s)), acc)

\* s.splitlines()
splitlines(s) == SplitAcc(s, <<>>, <<>>)

\* "number of bytes per scan" in line.lower()
DeclaresLength(line) == \E i \in 1..Len(line) : Lower(line)[i] = PhraseLower

\* line.startswith("*")
StartsWithStar(line) == Len(line) >= 1 /\ line[1] = "*"

\* positions where the separator "= " starts in s
SepAt(s) == {i \in 1..(Len(s) - 1) : s[i] = "=" /\ s[i + 1] = " "}

Min(S) == CHOOSE x \in S : \A y \in S : x <= y

\* line.split("= "): the fields, scanning the separators left to right
RECURSIVE SplitEq(_)
SplitEq(s) ==
    IF SepAt(s) = {} THEN <<s>>
    ELSE LET i == Min(SepAt(s))
         IN <<SubSeq(s, 1, i - 1)>> \o SplitEq(SubSeq(s, i + 2, Len(s)))

RECURSIVE LStrip(_)
LStrip(s) == IF s # <<>> /\ IsSpace(Head(s)) THEN LStrip(Tail(s)) ELSE s

RECURSIVE RStrip(_)
RStrip(s) == IF s # <<>> /\ IsSpace(s[Len(s)]) THEN RStrip(SubSeq(s, 1, Len(s) - 1)) ELSE s

DecDigit == [c \in {"0", "1", "2", "3", "4", "5", "6", "7", "8", "9"} |->
    CASE c = "0" -> 0 [] c = "1" -> 1 [] c = "2" -> 2 [] c = "3" -> 3 [] c = "4" -> 4
      [] c = "5" -> 5 [] c = "6" -> 6 [] c = "7" -> 7 [] c = "8" -> 8 [] c = "9" -> 9]

RECURSIVE DecVal(_, _)
\* value of a run of decimal digits, acc the value of the digits already read
DecVal(s, acc) == IF s = <<>> THEN acc ELSE DecVal(Tail(s), 10 * acc + DecDigit[Head(s)])

\* int(s): [ok |-> TRUE, val |-> n], or ok = FALSE where int() raises ValueError
IntOf(s) ==
    LET t == RStrip(LStrip(s))
        signed == t # <<>> /\ Head(t) \in {"+", "-"}
        digits == IF signed THEN Tail(t) ELSE t
    IN IF digits = <<>> \/ \E i \in 1..Len(digits) : digits[i] \notin DOMAIN DecDigit
       THEN [ok |-> FALSE, val |-> 0]
       ELSE [ok |-> TRUE,
             val |-> IF signed /\ Head(t) = "-" THEN 0 - DecVal(digits, 0) ELSE DecVal(digits, 0)]

HexDigit == [c \in {"0", "1", "2", "3", "4", "5", "6", "7", "8", "9",
                    "a", "b", "c", "d", "e", "f", "A", "B", "C", "D", "E", "F"} |->
    CASE c \in DOMAIN DecDigit -> DecDigit[c]
      [] c \in {"a", "A"} -> 10 [] c \in {"b", "B"} -> 11 [] c \in {"c", "C"} -> 12
      [] c \in {"d", "D"} -> 13 [] c \in {"e", "E"} -> 14 [] c \in {"f", "F"} -> 15]

RECURSIVE FromHexAcc(_, _)
\* bytes.fromhex(s): whitespace before a byte is skipped, then two hex digits
\* make one byte; anything else raises ValueError (ok = FALSE)
FromHexAcc(s, acc) ==
    LET t == LStrip(s)
    IN IF t = <<>> THEN [ok |-> TRUE, bytes |-> acc]
       ELSE IF Len(t) >= 2 /\ t[1] \in DOMAIN HexDigit /\ t[2] \in DOMAIN HexDigit
       THEN FromHexAcc(SubSeq(t, 3, Len(t)), Append(acc, 16 * HexDigit[t[1]] + HexDigit[t[2]]))
       ELSE [ok |-> FALSE, bytes |-> <<>>]

\* bytes.fromhex(line)
fromhex(line) == FromHexAcc(line, <<>>)

LowerHexChars == <<"0", "1", "2", "3", "4", "5", "6", "7", "8", "9", "a", "b", "c", "d", "e", "f">>

\* bytes([b]).hex()
ByteHex(b) == <<LowerHexChars[(b \div 16) + 1], LowerHexChars[(b % 16) + 1]>>

RECURSIVE BytesHex(_)
\* bytes(row).hex()
BytesHex(row) == IF row = <<>> THEN <<>> ELSE ByteHex(Head(row)) \o BytesHex(Tail(row))

-----------------------------------------------------------------------------
(* hex_to_dataset *)

NoErr == [type |-> "none", msg |-> "", lineno |-> 0]
NoDs == [hex |-> <<>>, dims |-> <<>>, attrs |-> <<>>]

ERRORS == {"store", "raise", "ignore"}

\* the exception raised while line n is being handled
Raise(type, msg, n) == [type |-> type, msg |-> msg, lineno |-> n]

\* int(line.split("= ")[1]): the declared number of bytes per scan, or the
\* exception the expression raises
DeclaredLength(line) ==
    LET fields == SplitEq(line)
    IN IF Len(fields) < 2 THEN [ok |-> FALSE, type |-> "IndexError", val |-> 0]
       ELSE IF ~IntOf(fields[2]).ok THEN [ok |-> FALSE, type |-> "ValueError", val |-> 0]
       ELSE [ok |-> TRUE, type |-> "none", val |-> IntOf(fields[2]).val]

\* enumerate(..., start=0) numbers the lines from 0
LineNumberFromZero(i) == i - 1

\* the number enumerate(..., start=1) gives the line at 1-based position i
LineNumber(i) == i

\* the check is left out: a data line is handled with no length known
NoScanLengthUnchecked(dl) == FALSE

\* datalen == 0: no number of bytes per scan is known at a data line
NoScanLength(dl) == dl = 0

\* "ignore" raises as "raise" does
LengthPolicyIgnoreRaises(policy, n) ==
    IF policy \in {"raise", "ignore"} THEN [type |-> "ValueError", msg |-> "invalid scan lengths line", lineno |-> n]
    ELSE [type |-> "NotImplementedError", msg |-> "better figure out how to do this", lineno |-> n]

\* "store" falls through as "ignore" does
LengthPolicyStoreIgnores(policy, n) ==
    IF policy = "raise" THEN [type |-> "ValueError", msg |-> "invalid scan lengths line", lineno |-> n]
    ELSE [type |-> "none", msg |-> "", lineno |-> 0]

\* what the policy does with a line of the wrong length:
\* "raise" and "store" end the call, "ignore" goes on to the next line
LengthPolicy(policy, n) ==
    IF policy = "raise" THEN Raise("ValueError", "invalid scan lengths line", n)
    ELSE IF policy = "store" THEN Raise("NotImplementedError", "better figure out how to do this", n)
    ELSE NoErr

\* one pass of the for loop over enumerate(hex.splitlines(), start=1)
ScanLine ==
    /\ pc = "scan"
    /\ lineno < Len(lines)
    /\ LET line == lines[lineno + 1]
           n == LineNumber(lineno + 1)
           decl == DeclaredLength(line)
           declares == DeclaresLength(line)
           dl == IF declares THEN decl.val ELSE datalen
           ll == IF declares THEN <<decl.val * 2>> ELSE linelen
           \* the exception this pass raises, NoErr if it raises none
           e == IF declares /\ ~decl.ok
                    THEN Raise(decl.type, "bytes per scan declaration", n)
                ELSE IF StartsWithStar(line)
                    THEN NoErr
                ELSE IF NoScanLength(dl)
                    THEN Raise("ValueError", "Could not find number of bytes per scan", n)
                ELSE IF ll = <<>>
                    THEN Raise("UnboundLocalError", "linelen", n)
                ELSE IF StrLen(line) # ll[1]
                    THEN LengthPolicy(errors, n)
                ELSE IF ~fromhex(line).ok
                    THEN Raise("ValueError", "non-hexadecimal number found in fromhex()", n)
                ELSE NoErr
           \* the line reaches out.append
           appended == /\ ~StartsWithStar(line)
                       /\ ll # <<>>
                       /\ StrLen(line) = ll[1]
       IN /\ lineno' = lineno + 1
          /\ datalen' = IF declares /\ ~decl.ok THEN datalen ELSE dl
          /\ linelen' = IF declares /\ ~decl.ok THEN linelen ELSE ll
          /\ err' = e
          /\ pc' = IF e # NoErr THEN "raised" ELSE pc
          /\ comments' = IF e = NoErr /\ StartsWithStar(line) THEN Append(comments, line) ELSE comments
          /\ out' = IF e = NoErr /\ appended THEN Append(out, fromhex(line).bytes) ELSE out
    /\ UNCHANGED <<hex, errors, lines, ds, encoded, scans, eng,
                   odfVars, sciVars, calls, cnvVars, eqVars, xmlVars>>

\* np.array(rows, dtype=np.uint8): rows of unequal length raise ValueError,
\* an empty list gives a one-dimensional array of shape (0,)
np_array(rows) ==
    IF rows = <<>> THEN [ok |-> TRUE, ndim |-> 1, shape |-> <<0>>, values |-> <<>>]
    ELSE IF \E i \in 1..Len(rows) : Len(rows[i]) # Len(rows[1])
    THEN [ok |-> FALSE, ndim |-> 0, shape |-> <<>>, values |-> <<>>]
    ELSE [ok |-> TRUE, ndim |-> 2, shape |-> <<Len(rows), Len(rows[1])>>, values |-> rows]

\* the code after the loop: header, np.array, xr.DataArray over the two
\* dimensions scan and bytes_per_scan, and the returned xr.Dataset
BuildDataset ==
    /\ pc = "scan"
    /\ lineno = Len(lines)
    /\ LET header == Join(<<"LF">>, comments)
           data == np_array(out)
       IN IF ~data.ok
          THEN /\ pc' = "raised"
               /\ err' = Raise("ValueError", "inhomogeneous shape", 0)
               /\ ds' = ds
          ELSE IF data.ndim # 2
          THEN /\ pc' = "raised"
               /\ err' = Raise("ValueError", "different number of dimensions on data and dims", 0)
               /\ ds' = ds
          ELSE /\ pc' = "returned"
               /\ err' = err
               /\ ds' = [hex |-> data.values,
                         dims |-> [scan |-> data.shape[1], bytes_per_scan |-> data.shape[2]],
                         attrs |-> [k \in {"hex_header"} |-> header]]
    /\ UNCHANGED <<hex, errors, lines, lineno, comments, out, datalen, linelen, encoded, scans, eng,
                   odfVars, sciVars, calls, cnvVars, eqVars, xmlVars>>

-----------------------------------------------------------------------------
(* ds_to_hex *)

RECURSIVE Flatten(_)
\* the rows of a matrix one after the other, as bytes(array) lays them out
Flatten(rows) == IF rows = <<>> THEN <<>> ELSE Head(rows) \o Flatten(Tail(rows))

\* ds.<name>: the names a Dataset resolves as attributes are its data
\* variables and the keys of its attrs
HasName(d, name) == name = "hex" \/ name \in DOMAIN d.attrs

RECURSIVE HexRows(_, _, _, _)
\* the loop over range(ds.dims["scan"]): each row's slice of data, then CR LF
HexRows(data, row_len, row, nrows) ==
    IF row >= nrows THEN <<>>
    ELSE SubSeq(data, row * row_len + 1, row * row_len + row_len) \o <<"CR", "LF">>
         \o HexRows(data, row_len, row + 1, nrows)

\* everything the generator ds_to_hex(d) yields, joined, or the exception
\* its first step raises
ds_to_hex(d) ==
    IF ~HasName(d, "comments")
    THEN [ok |-> FALSE, type |-> "AttributeError", bytes |-> <<>>]
    ELSE [ok |-> TRUE, type |-> "none",
          bytes |-> Join(<<"CR", "LF">>, splitlines(d.attrs["comments"])) \o <<"CR", "LF">>
                    \o HexRows(Upper(BytesHex(Flatten(d.hex))), d.dims.bytes_per_scan * 2,
                               0, d.dims.scan)]

\* the returned Dataset is handed to ds_to_hex and the generator is drained
DsToHex ==
    /\ pc = "returned"
    /\ LET r == ds_to_hex(ds)
       IN /\ pc' = IF r.ok THEN "encoded" ELSE "encode_raised"
          /\ err' = IF r.ok THEN err ELSE Raise(r.type, "comments", 0)
          /\ encoded' = r.bytes
    /\ UNCHANGED <<hex, errors, lines, lineno, comments, out, datalen, linelen, ds, scans, eng,
                   odfVars, sciVars, calls, cnvVars, eqVars, xmlVars>>

-----------------------------------------------------------------------------
(* Input texts *)

\* a header line that declares n bytes per scan, as the deck unit writes it
DeclLine(digits) == <<"*", " ", PhraseTitle, " ", "=", " ">> \o digits

\* the lines input texts are made of
SampleLines == {
    <<"*", " ", "x">>,                             \* a header comment
    DeclLine(<<"1">>),                             \* declares 1 byte per scan
    DeclLine(<<"2">>),                             \* declares 2 bytes per scan
    DeclLine(<<"1", "0">>),                        \* declares 10 bytes per scan
    <<"*", " ", PhraseLower>>,                     \* a declaration without "= "
    <<PhraseLower, " ", "=", " ", "1">>,           \* a declaration outside a comment
    <<"0", "F">>,                                  \* 1 byte
    <<"a", "b">>,                                  \* 1 byte, lower case
    <<"A", "1", "b", "2">>,                        \* 2 bytes, one digit in lower case
    <<"A", "B", " ", " ">>,                        \* 4 characters, 1 byte
    <<"Z", "Z">>,                                  \* 2 characters, not hex
    <<>>,                                          \* an empty line
    <<"0", "0", "1", "1", "2", "2", "3", "3", "4", "4", "5", "5",
      "6", "6", "7", "7", "8", "8", "9", "9", "A", "A">>   \* 22 characters, 11 bytes
}

LineBreaks == {<<"LF">>, <<"CR", "LF">>}

\* the texts of at most MaxLines sample lines, each line closed by the same
\* line break
SampleTexts ==
    {Join(eol, ls) \o (IF ls = <<>> THEN <<>> ELSE eol) :
        <<eol, ls>> \in LineBreaks \X UNION {[1..n -> SampleLines] : n \in 0..MaxLines}}

\* the state the channel extractor is left in while the decoder runs
NoEng == [op |-> "none", channel |-> 0, f_s |-> 0, ok |-> TRUE, code |-> <<>>, data |-> <<>>]

\* hex_to_dataset(hex, errors) is entered: lines 51-53
Init ==
    /\ hex \in SampleTexts
    /\ errors \in ERRORS
    /\ pc = "scan"
    /\ lines = splitlines(hex)
    /\ lineno = 0
    /\ comments = <<>>
    /\ out = <<>>
    /\ datalen = 0
    /\ linelen = <<>>
    /\ err = NoErr
    /\ ds = NoDs
    /\ encoded = <<>>
    /\ scans = <<>>
    /\ eng = NoEng
    /\ OdfIdle /\ SciIdle /\ CnvIdle /\ EqIdle /\ XmlIdle

Next == ScanLine \/ BuildDataset \/ DsToHex

Spec == Init /\ [][Next]_vars

-----------------------------------------------------------------------------
(* The decoder's input, read independently of the loop *)

RECURSIVE DeclAt(_, _)
\* the number of bytes per scan in force at line i of ls: what the last
\* declaring line at or before i declares, 0 if there is none
DeclAt(ls, i) ==
    IF i = 0 THEN 0
    ELSE IF DeclaresLength(ls[i]) THEN DeclaredLength(ls[i]).val
    ELSE DeclAt(ls, i - 1)

\* line i of ls is a data line met while no line up to it has declared a length
DataBeforeDeclaration(ls, i) ==
    /\ ~StartsWithStar(ls[i])
    /\ \A j \in 1..i : ~DeclaresLength(ls[j])

\* line i of ls is a data line whose length is not 2 x the bytes per scan in force
WrongLength(ls, i) ==
    /\ ~StartsWithStar(ls[i])
    /\ DeclAt(ls, i) # 0
    /\ StrLen(ls[i]) # 2 * DeclAt(ls, i)

\* line i of ls is a data line whose length is 2 x the bytes per scan in force
RightLength(ls, i) ==
    /\ ~StartsWithStar(ls[i])
    /\ DeclAt(ls, i) # 0
    /\ StrLen(ls[i]) = 2 * DeclAt(ls, i)

RECURSIVE KeptIdx(_, _)
\* the positions, in order, of the right-length data lines among the first n lines
KeptIdx(ls, n) ==
    IF n = 0 THEN <<>>
    ELSE IF RightLength(ls, n) THEN Append(KeptIdx(ls, n - 1), n)
    ELSE KeptIdx(ls, n - 1)

\* the right-length data lines among the first n lines, hex-decoded, in order
KeptRows(ls, n) == [k \in 1..Len(KeptIdx(ls, n)) |-> fromhex(ls[KeptIdx(ls, n)[k]]).bytes]

UpperHexChars == {"0", "1", "2", "3", "4", "5", "6", "7", "8", "9", "A", "B", "C", "D", "E", "F"}

\* text is well formed: header comment lines of which exactly one declares a
\* positive number of bytes per scan, then one or more data lines of that
\* length in upper-case hex, every line closed by CR LF
WellFormed(text) ==
    LET ls == splitlines(text)
    IN /\ text = Join(<<"CR", "LF">>, ls) \o <<"CR", "LF">>
       /\ \E h \in 1..(Len(ls) - 1) :
            /\ \A i \in 1..h : StartsWithStar(ls[i])
            /\ Cardinality({i \in 1..h : DeclaresLength(ls[i])}) = 1
            /\ \A i \in 1..h : DeclaresLength(ls[i]) =>
                    DeclaredLength(ls[i]).ok /\ DeclaredLength(ls[i]).val > 0
            /\ \A i \in (h + 1)..Len(ls) :
                    /\ RightLength(ls, i)
                    /\ \A j \in 1..Len(ls[i]) : ls[i][j] \in UpperHexChars

Finished == pc \in {"returned", "raised", "encoded", "encode_raised"}
Returned == pc \in {"returned", "encoded", "encode_raised"}

-----------------------------------------------------------------------------
(* Claims about the frame decoder and its encoder *)

\* C1: decoding a well-formed hex text with hex_to_dataset and re-encoding the
\* Dataset with ds_to_hex gives the original text back, character for
\* character.
C1_RoundTrip ==
    (WellFormed(hex) /\ pc \in {"encoded", "encode_raised"}) =>
        (pc = "encoded" /\ encoded = hex)

\* C2: a data line handled while no line so far has declared the number of
\* bytes per scan ends the decode there with a ValueError, whatever the error
\* policy, and no Dataset is returned.
C2_NoScanLengthIsFatal ==
    \A i \in 1..lineno :
        DataBeforeDeclaration(lines, i) =>
            /\ pc = "raised"
            /\ lineno = i
            /\ err = Raise("ValueError", "Could not find number of bytes per scan", i)
            /\ ds = NoDs

\* C2 witness: under "ignore", a data line after a header comment that
\* declares nothing has ended the decode.
C2_Witness ==
    /\ errors = "ignore"
    /\ pc = "raised"
    /\ lineno = 2
    /\ StartsWithStar(lines[1])
    /\ DataBeforeDeclaration(lines, 2)

\* C3: under errors = "raise" the decode ends at the first data line whose
\* length is not 2 x bytes per scan, with a ValueError that carries that
\* line's 1-based number, and no Dataset is returned.
C3_RaiseNamesLine ==
    errors = "raise" =>
        \A i \in 1..lineno :
            WrongLength(lines, i) =>
                /\ pc = "raised"
                /\ lineno = i
                /\ err = Raise("ValueError", "invalid scan lengths line", i)
                /\ ds = NoDs

\* C3 witness: under "raise" a wrong-length line on line 3 ended the decode
\* after an earlier scan had been decoded.
C3_Witness ==
    /\ errors = "raise"
    /\ pc = "raised"
    /\ lineno = 3
    /\ WrongLength(lines, 3)
    /\ Len(out) = 1

\* C4: under errors = "ignore" no line's length ends the decode: a
\* wrong-length line is skipped, the rows collected so far are exactly the
\* right-length data lines handled so far, hex-decoded, in input order, and a
\* returned Dataset holds exactly those rows.
C4_IgnoreSkips ==
    errors = "ignore" =>
        /\ err.msg \notin {"invalid scan lengths line", "better figure out how to do this"}
        /\ err.type # "NotImplementedError"
        /\ (pc = "scan" => out = KeptRows(lines, lineno))
        /\ (Returned => ds.hex = KeptRows(lines, Len(lines)))

\* C4 witness: under "ignore" a Dataset with one scan is returned from an
\* input whose first data line had the wrong length and was skipped.
C4_Witness ==
    /\ errors = "ignore"
    /\ pc = "returned"
    /\ Len(lines) = 3
    /\ WrongLength(lines, 2)
    /\ RightLength(lines, 3)
    /\ Len(ds.hex) = 1

\* C5: under errors = "ignore", a text that declares 10 bytes per scan and
\* whose only data line has 22 hex characters decodes to a Dataset with zero
\* scans, of dimensions [0, 10].
C5_ZeroScanFrame ==
    (/\ errors = "ignore"
     /\ Len(lines) = 2
     /\ lines[1] = DeclLine(<<"1", "0">>)
     /\ ~StartsWithStar(lines[2]) /\ StrLen(lines[2]) = 22
     /\ Finished) =>
        /\ Returned
        /\ ds.dims = [scan |-> 0, bytes_per_scan |-> 10]

\* C6: under errors = "store" a wrong-length data line ends the decode there
\* with NotImplementedError; no Dataset is returned from an input in which
\* such a line was handled.
C6_StoreIsNotIgnore ==
    errors = "store" =>
        \A i \in 1..lineno :
            WrongLength(lines, i) =>
                /\ pc = "raised"
                /\ lineno = i
                /\ err.type = "NotImplementedError"
                /\ ds = NoDs

\* C6 witness: under "store" a wrong-length data line that follows a decoded
\* scan ended the decode with NotImplementedError.
C6_Witness ==
    /\ errors = "store"
    /\ pc = "raised"
    /\ err.type = "NotImplementedError"
    /\ WrongLength(lines, lineno)
    /\ Len(out) >= 1

\* C7: in a returned Dataset every scan row has the same length, and that
\* length is the number of bytes per scan declared for the row's line.
C7_RowsHaveDeclaredLength ==
    Returned =>
        /\ Len(ds.hex) = Len(KeptIdx(lines, Len(lines)))
        /\ \A k \in 1..Len(ds.hex) :
              /\ Len(ds.hex[k]) = ds.dims.bytes_per_scan
              /\ Len(ds.hex[k]) = DeclAt(lines, KeptIdx(lines, Len(lines))[k])

-----------------------------------------------------------------------------
(* Channel extractor: get_freq, calc_v_indexes, get_channel_voltage *)

RECURSIVE Pow2(_)
Pow2(n) == IF n = 0 THEN 1 ELSE 2 * Pow2(n - 1)

RECURSIVE BitOr(_, _)
\* a | b on unsigned integers
BitOr(a, b) ==
    IF a = 0 THEN b
    ELSE IF b = 0 THEN a
    ELSE (IF a % 2 = 1 \/ b % 2 = 1 THEN 1 ELSE 0) + 2 * BitOr(a \div 2, b \div 2)

RECURSIVE BitAnd(_, _)
\* a & b on unsigned integers
BitAnd(a, b) ==
    IF a = 0 \/ b = 0 THEN 0
    ELSE (IF a % 2 = 1 /\ b % 2 = 1 THEN 1 ELSE 0) + 2 * BitAnd(a \div 2, b \div 2)

\* a << k in an unsigned integer type of the given width: the bits moved past
\* the width are lost, so only the low width - k bits of a survive
ShiftLeft(a, k, width) == (a % Pow2(width - k)) * Pow2(k)

\* a >> k
ShiftRight(a, k) == a \div Pow2(k)

\* width of the type get_freq widens the first byte to: astype("uint32")
FreqBits == 32
\* width of the type get_channel_voltage widens the first byte to: astype("uint16")
VoltBits == 16
\* the mask that keeps the 12 bits of a voltage
VoltMask == 4095
\* frequency channels of an instrument with none suppressed
FreqChannels == 5

\* a float result, kept as the exact fraction num / den
Frac(num, den) == [num |-> num, den |-> den]

\* the first byte is widened to uint16 only: the second shift loses its bits
FreqOfScanUint16(row, channel) ==
    LET m == 3 * channel
        d1 == ShiftLeft(row[m + 1], 8, 16)
        d2 == ShiftLeft(BitOr(d1, row[m + 2]), 8, 16)
        d3 == BitOr(d2, row[m + 3])
    IN [num |-> d3, den |-> 256]

\* the final division by 256 is left out
FreqOfScanUnscaled(row, channel) ==
    LET m == 3 * channel
        d1 == ShiftLeft(row[m + 1], 8, 32)
        d2 == ShiftLeft(BitOr(d1, row[m + 2]), 8, 32)
        d3 == BitOr(d2, row[m + 3])
    IN [num |-> d3, den |-> 1]

\* get_freq for one scan: the element of the returned column that belongs to
\* row; channel counts from 0 and row[j + 1] is the byte at offset j
FreqOfScan(row, channel) ==
    LET m == 3 * channel
        d1 == ShiftLeft(row[m + 1], 8, FreqBits)
        d2 == ShiftLeft(BitOr(d1, row[m + 2]), 8, FreqBits)
        d3 == BitOr(d2, row[m + 3])
    IN Frac(d3, 256)

\* get_freq(hex, channel): the column over all scans, or IndexError when the
\* channel's bytes lie outside the rows
get_freq(matrix, channel) ==
    IF \E i \in 1..Len(matrix) : 3 * channel + 2 >= Len(matrix[i])
    THEN [ok |-> FALSE, data |-> <<>>]
    ELSE [ok |-> TRUE, data |-> [i \in 1..Len(matrix) |-> FreqOfScan(matrix[i], channel)]]

\* the shift flag is set for the odd channel instead of the even one
calc_v_indexes_ShiftOdd(n) ==
    LET start == (n \div 2) * 3
        high == n % 2
    IN <<start + high, start + high + 1, high>>

\* the odd channel starts at the first byte of its group like the even one
calc_v_indexes_SameStart(n) ==
    LET start == (n \div 2) * 3
        high == n % 2
    IN <<start, start + 1, 1 - high>>

\* calc_v_indexes(n): first byte index, second byte index, shift flag
calc_v_indexes(n) ==
    LET start == (n \div 2) * 3
        high == n % 2
    IN <<start + high, start + high + 1, 1 - high>>

\* the mask to 12 bits is left out
VoltCodeOfScanUnmasked(row, channel, freq_supressed) ==
    LET offset == (5 - freq_supressed) * 3
        idx == calc_v_indexes(channel)
        d1 == ShiftLeft(row[idx[1] + offset + 1], 8, 16)
        d2 == BitOr(d1, row[idx[2] + offset + 1])
    IN ShiftRight(d2, 4 * idx[3])

\* the 12-bit code get_channel_voltage extracts from one scan
VoltCodeOfScan(row, channel, freq_supressed) ==
    LET offset == (FreqChannels - freq_supressed) * 3
        idx == calc_v_indexes(channel)
        first_byte_idx == idx[1] + offset
        second_byte_idx == idx[2] + offset
        shift == idx[3]
        d1 == ShiftLeft(row[first_byte_idx + 1], 8, VoltBits)
        d2 == BitOr(d1, row[second_byte_idx + 1])
        d3 == ShiftRight(d2, 4 * shift)
    IN BitAnd(d3, VoltMask)

\* 5 * (1 - (data/4095)) as an exact fraction
Normalize(data) == Frac(5 * (4095 - data), 4095)

\* get_channel_voltage(hex, channel, freq_supressed): the column over all
\* scans, or IndexError when the channel's bytes lie outside the rows
get_channel_voltage(matrix, channel, freq_supressed) ==
    IF \E i \in 1..Len(matrix) :
          calc_v_indexes(channel)[2] + (FreqChannels - freq_supressed) * 3 >= Len(matrix[i])
    THEN [ok |-> FALSE, code |-> <<>>, data |-> <<>>]
    ELSE [ok |-> TRUE,
          code |-> [i \in 1..Len(matrix) |-> VoltCodeOfScan(matrix[i], channel, freq_supressed)],
          data |-> [i \in 1..Len(matrix) |->
                        Normalize(VoltCodeOfScan(matrix[i], channel, freq_supressed))]]

\* get_freq is called on the byte matrix for one frequency channel
GetFreq ==
    /\ pc = "extract"
    /\ pc' = "extracted"
    /\ \E channel \in 0..(FreqChannels - 1) :
          eng' = [op |-> "get_freq", channel |-> channel, f_s |-> 0,
                  ok |-> get_freq(scans, channel).ok,
                  code |-> <<>>,
                  data |-> get_freq(scans, channel).data]
    /\ UNCHANGED <<scans, hex, errors, lines, lineno, comments, out, datalen, linelen,
                   err, ds, encoded,
                   odfVars, sciVars, calls, cnvVars, eqVars, xmlVars>>

\* voltage channels the extractor is asked for
VoltChannels == 0..2

\* get_channel_voltage is called on the byte matrix for one voltage channel
GetChannelVoltage ==
    /\ pc = "extract"
    /\ pc' = "extracted"
    /\ \E channel \in VoltChannels, freq_supressed \in 0..(FreqChannels - 1) :
          eng' = [op |-> "get_channel_voltage", channel |-> channel, f_s |-> freq_supressed,
                  ok |-> get_channel_voltage(scans, channel, freq_supressed).ok,
                  code |-> get_channel_voltage(scans, channel, freq_supressed).code,
                  data |-> get_channel_voltage(scans, channel, freq_supressed).data]
    /\ UNCHANGED <<scans, hex, errors, lines, lineno, comments, out, datalen, linelen,
                   err, ds, encoded,
                   odfVars, sciVars, calls, cnvVars, eqVars, xmlVars>>

\* byte values the scan rows are filled with
ByteSamples == {0, 15, 240, 255}

\* row with its bytes moved k places to the left, the first ones to the end
Rotate(row, k) == [j \in 1..Len(row) |-> row[((j - 1 + k) % Len(row)) + 1]]

\* a decoded byte matrix is at hand: scan i holds the bytes of the first scan
\* moved i - 1 three-byte groups, so that the scans differ
InitExtract ==
    /\ \E n \in 1..MaxScans, row \in [1..NumBytes -> ByteSamples] :
          scans = [i \in 1..n |-> Rotate(row, 3 * (i - 1))]
    /\ eng = NoEng
    /\ OdfIdle /\ SciIdle /\ CnvIdle /\ EqIdle /\ XmlIdle
    /\ hex = <<>>
    /\ errors = "raise"
    /\ pc = "extract"
    /\ lines = <<>>
    /\ lineno = 0
    /\ comments = <<>>
    /\ out = <<>>
    /\ datalen = 0
    /\ linelen = <<>>
    /\ err = NoErr
    /\ ds = NoDs
    /\ encoded = <<>>

NextExtract == GetFreq \/ GetChannelVoltage

SpecExtract == InitExtract /\ [][NextExtract]_vars

-----------------------------------------------------------------------------
(* Claims about the channel extractor *)

\* x <= y for fractions with non-negative numerators, compared by whole part
\* and remainder
FracLeq(x, y) ==
    \/ x.num \div x.den < y.num \div y.den
    \/ /\ x.num \div x.den = y.num \div y.den
       /\ (x.num % x.den) * y.den <= (y.num % y.den) * x.den

\* x = y as fractions
FracEq(x, y) == FracLeq(x, y) /\ FracLeq(y, x)

\* the whole number n as a fraction
Whole(n) == [num |-> n, den |-> 1]

\* the byte at 0-based offset j of scan i
ByteAt(i, j) == scans[i][j + 1]

\* C8: for every scan and frequency channel c, get_freq returns the 24-bit
\* big-endian integer of the bytes at offsets 3c, 3c+1, 3c+2, divided by 256,
\* with no bit lost.
C8_FreqIsBigEndian24 ==
    (eng.op = "get_freq" /\ eng.ok) =>
        /\ Len(eng.data) = Len(scans)
        /\ \A i \in 1..Len(scans) :
              eng.data[i] =
                  [num |-> ByteAt(i, 3 * eng.channel) * 65536
                           + ByteAt(i, 3 * eng.channel + 1) * 256
                           + ByteAt(i, 3 * eng.channel + 2),
                   den |-> 256]

\* C8 witness: channel 1 decoded from three bytes of 255, the largest value.
C8_Witness ==
    /\ eng.op = "get_freq" /\ eng.ok
    /\ eng.channel = 1
    /\ ByteAt(1, 3) = 255 /\ ByteAt(1, 4) = 255 /\ ByteAt(1, 5) = 255
    /\ eng.data[1].num = 16777215

\* C9 as stated: every decoded frequency value lies within [0, 65535/256].
C9_FreqWithin65535Over256 ==
    (eng.op = "get_freq" /\ eng.ok) =>
        \A i \in 1..Len(eng.data) :
            /\ FracLeq(Whole(0), eng.data[i])
            /\ FracLeq(eng.data[i], [num |-> 65535, den |-> 256])

\* C9 amended: every decoded frequency value lies within [0, 16777215/256],
\* the range of a 24-bit integer divided by 256.
C9_FreqWithin24Bits ==
    (eng.op = "get_freq" /\ eng.ok) =>
        \A i \in 1..Len(eng.data) :
            /\ FracLeq(Whole(0), eng.data[i])
            /\ FracLeq(eng.data[i], [num |-> 16777215, den |-> 256])

\* C9 witness: a decoded frequency above 65535/256 and within 16777215/256.
C9_Witness ==
    /\ eng.op = "get_freq" /\ eng.ok
    /\ \E i \in 1..Len(eng.data) :
          /\ ~FracLeq(eng.data[i], [num |-> 65535, den |-> 256])
          /\ ByteAt(i, 3 * eng.channel) = 15

\* C10: get_channel_voltage extracts a code v in 0..4095 and returns
\* 5 * (1 - v/4095): every voltage lies in [0, 5], code 0 gives exactly 5 and
\* code 4095 exactly 0.
C10_VoltageRange ==
    (eng.op = "get_channel_voltage" /\ eng.ok) =>
        \A i \in 1..Len(eng.data) :
            /\ eng.code[i] \in 0..4095
            /\ FracEq(eng.data[i], [num |-> 5 * (4095 - eng.code[i]), den |-> 4095])
            /\ FracLeq(Whole(0), eng.data[i])
            /\ FracLeq(eng.data[i], Whole(5))
            /\ (eng.code[i] = 0 => FracEq(eng.data[i], Whole(5)))
            /\ (eng.code[i] = 4095 => FracEq(eng.data[i], Whole(0)))

\* C10 witness: an odd channel decoded over two scans, code 4095 (0 V) in the
\* first and code 0 (5 V) in the second.
C10_Witness ==
    /\ eng.op = "get_channel_voltage" /\ eng.ok
    /\ eng.channel = 1
    /\ Len(eng.code) = 2
    /\ eng.code[1] = 4095 /\ eng.data[1].num = 0
    /\ eng.code[2] = 0 /\ FracEq(eng.data[2], Whole(5))

\* the 16-bit value of the two-byte window of voltage channel n in scan i:
\* the bytes at (5 - f_s)*3 + 3*(n // 2) + (n % 2) and the one after it
Window(i, n, suppressed) ==
    ByteAt(i, (5 - suppressed) * 3 + 3 * (n \div 2) + (n % 2)) * 256
    + ByteAt(i, (5 - suppressed) * 3 + 3 * (n \div 2) + (n % 2) + 1)

\* C12 as stated: an even-numbered channel takes its 12-bit code from its
\* two-byte window with no right shift, and an odd-numbered channel applies
\* the 4-bit shift before masking.
C12_EvenUnshiftedOddShifted ==
    (eng.op = "get_channel_voltage" /\ eng.ok) =>
        \A i \in 1..Len(eng.code) :
            eng.code[i] =
                IF eng.channel % 2 = 0
                THEN Window(i, eng.channel, eng.f_s) % 4096
                ELSE (Window(i, eng.channel, eng.f_s) \div 16) % 4096

\* C12 amended: an even-numbered channel applies the 4-bit right shift to its
\* two-byte window before masking (its code is the high 12 bits), and an
\* odd-numbered channel takes its code with no shift (the low 12 bits).
C12_EvenShiftedOddMasked ==
    (eng.op = "get_channel_voltage" /\ eng.ok) =>
        \A i \in 1..Len(eng.code) :
            eng.code[i] =
                IF eng.channel % 2 = 0
                THEN (Window(i, eng.channel, eng.f_s) \div 16) % 4096
                ELSE Window(i, eng.channel, eng.f_s) % 4096

\* C12 witness: a window that tells the two readings apart: the even
\* channel 0 decodes the window 0x0FF0 to the code 0x0FF.
C12_Witness ==
    /\ eng.op = "get_channel_voltage" /\ eng.ok
    /\ eng.channel = 0
    /\ Window(1, 0, eng.f_s) = 4080
    /\ eng.code[1] = 255

-----------------------------------------------------------------------------
(* odf_wrapper: hex_to_f, hex_to_v and the engineering variable *)

\* sensor maps of up to MaxSensors entries are built
MaxSensors == 13
\* a scan holds up to MaxVoltGroups three-byte groups of two voltage words
MaxVoltGroups == 4
\* and up to MaxTail bytes after the voltage words
MaxTail == 8
\* scan contents are drawn from the seeds 0..MaxSeed
MaxSeed == 1

\* one entry of the sensor map: the key it has in the dict and its metadata;
\* coefs tells whether the calibration coefficients its equation reads exist
Sensor(index, id, name, ok) ==
    [index |-> index, SensorID |-> id, SensorName |-> name, coefs |-> ok]

\* the sensor identity code at channel ch of the usual layout: temperature,
\* conductivity, pressure, second temperature, second conductivity on the
\* frequency channels, then oxygen, fluorometer, altimeter and free channels
StandardID(ch) ==
    CASE ch = 0 -> "55"
      [] ch = 1 -> "3"
      [] ch = 2 -> "45"
      [] ch = 3 -> "55"
      [] ch = 4 -> "3"
      [] ch = 5 -> "38"
      [] ch = 6 -> "11"
      [] ch = 7 -> "0"
      [] OTHER -> "27"

\* the first n entries of the usual layout
StandardMap(n) == [i \in 1..n |-> Sensor(i - 1, StandardID(i - 1), "", TRUE)]

\* hex_to_f(hex_data, f_suppressed): one column per frequency channel, or the
\* IndexError of get_freq
hex_to_f(hex_data, f_suppressed) ==
    LET f_channels == FreqChannels - f_suppressed
        cols == [c \in 1..f_channels |-> get_freq(hex_data, c - 1)]
    IN IF \E c \in 1..f_channels : ~cols[c].ok
       THEN [ok |-> FALSE, type |-> "IndexError", msg |-> "", data |-> <<>>]
       ELSE [ok |-> TRUE, type |-> "none", msg |-> "",
             data |-> [c \in 1..f_channels |-> cols[c].data]]

\* hex_to_v(hex, data_xmlcon, freq_supressed): one column per channel of
\* range(start_v_ind, end_v_ind), the ValueError of the index check, or the
\* IndexError of get_channel_voltage
hex_to_v(hex_data, data_xmlcon, freq_supressed) ==
    LET start_v_ind == Len(data_xmlcon) - (Len(data_xmlcon) - 5)
        end_v_ind == Len(data_xmlcon)
        num_channels == end_v_ind - start_v_ind
        cols == [k \in 1..num_channels |->
                    get_channel_voltage(hex_data, start_v_ind + k - 1, freq_supressed)]
    IN IF start_v_ind < 0 \/ start_v_ind >= end_v_ind
       THEN [ok |-> FALSE, type |-> "ValueError", msg |-> "Invalid channel indices",
             data |-> <<>>]
       ELSE IF \E k \in 1..num_channels : ~cols[k].ok
       THEN [ok |-> FALSE, type |-> "IndexError", msg |-> "", data |-> <<>>]
       ELSE [ok |-> TRUE, type |-> "none", msg |-> "",
             data |-> [k \in 1..num_channels |-> cols[k].data]]

\* odf_wrapper evaluates hex_to_f(data.hex, data.attrs["f_s"])
OdfHexToF ==
    /\ pc = "odf"
    /\ LET r == hex_to_f(scans, f_s)
       IN IF r.ok
          THEN /\ freq_out' = r.data
               /\ pc' = "hex_to_f_returned"
               /\ err' = err
          ELSE /\ freq_out' = freq_out
               /\ pc' = "hex_to_f_raised"
               /\ err' = Raise(r.type, r.msg, 0)
    /\ UNCHANGED <<hex, errors, lines, lineno, comments, out, datalen, linelen, ds, encoded,
                   scans, eng, xmlcon_sensors, f_s, volt_out, engineering,
                   sciVars, calls, cnvVars, eqVars, xmlVars>>

\* odf_wrapper evaluates hex_to_v(data.hex, data.attrs["xmlcon_sensors"],
\* data.attrs["f_s"])
OdfHexToV ==
    /\ pc = "hex_to_f_returned"
    /\ LET r == hex_to_v(scans, xmlcon_sensors, f_s)
       IN IF r.ok
          THEN /\ volt_out' = r.data
               /\ pc' = "hex_to_v_returned"
               /\ err' = err
          ELSE /\ volt_out' = volt_out
               /\ pc' = "hex_to_v_raised"
               /\ err' = Raise(r.type, r.msg, 0)
    /\ UNCHANGED <<hex, errors, lines, lineno, comments, out, datalen, linelen, ds, encoded,
                   scans, eng, xmlcon_sensors, f_s, freq_out, engineering,
                   sciVars, calls, cnvVars, eqVars, xmlVars>>

\* odf_wrapper concatenates the two along "channel" and stores the result
OdfConcat ==
    /\ pc = "hex_to_v_returned"
    /\ engineering' = freq_out \o volt_out
    /\ pc' = "odf_returned"
    /\ UNCHANGED <<hex, errors, lines, lineno, comments, out, datalen, linelen, ds, encoded,
                   scans, eng, err, xmlcon_sensors, f_s, freq_out, volt_out,
                   sciVars, calls, cnvVars, eqVars, xmlVars>>

\* the byte at 0-based offset j of scan i (counted from 1) for a seed: the
\* bytes of a scan are pairwise different
ScanByte(seed, i, j) == (97 * seed + 37 * j + 101 * (i - 1)) % 256

\* read_hex has returned: a byte matrix whose scans hold the frequency words,
\* one to MaxVoltGroups voltage groups and a tail, a sensor map and f_s
InitOdf ==
    /\ f_s \in 0..(FreqChannels - 1)
    /\ \E n \in 0..MaxSensors : xmlcon_sensors = StandardMap(n)
    /\ \E n \in 1..MaxScans, seed \in 0..MaxSeed, g \in 1..MaxVoltGroups, t \in 0..MaxTail :
          scans = [i \in 1..n |->
                      [j \in 1..((FreqChannels - f_s) * 3 + 3 * g + t) |->
                          ScanByte(seed, i, j - 1)]]
    /\ freq_out = <<>>
    /\ volt_out = <<>>
    /\ engineering = <<>>
    /\ pc = "odf"
    /\ eng = NoEng
    /\ SciIdle /\ CnvIdle /\ EqIdle /\ XmlIdle
    /\ hex = <<>>
    /\ errors = "ignore"
    /\ lines = <<>>
    /\ lineno = 0
    /\ comments = <<>>
    /\ out = <<>>
    /\ datalen = 0
    /\ linelen = <<>>
    /\ err = NoErr
    /\ ds = NoDs
    /\ encoded = <<>>

NextOdf == OdfHexToF \/ OdfHexToV \/ OdfConcat

SpecOdf == InitOdf /\ [][NextOdf]_vars

-----------------------------------------------------------------------------
(* Claims about odf_wrapper *)

\* the code the packing holds for voltage channel n (counted from the first
\* voltage channel) in scan i: the two-byte window at
\* (5 - f_s)*3 + 3*(n // 2) + (n % 2), its high 12 bits for an even n and its
\* low 12 bits for an odd n
PackedCode(i, n) ==
    IF n % 2 = 0 THEN Window(i, n, f_s) \div 16 ELSE Window(i, n, f_s) % 4096

\* hex_to_v has returned its columns
HexToVReturned == pc \in {"hex_to_v_returned", "odf_returned"}

\* C11: column k (from 0) of hex_to_v's output is the voltage of channel
\* n = k counted from the first voltage channel, read from the bytes at
\* (5 - f_s)*3 + 3*(k // 2) + (k % 2) and the one after it.
C11_ColumnKReadsChannelK ==
    HexToVReturned =>
        \A k \in 0..(Len(volt_out) - 1) : \A i \in 1..Len(scans) :
            FracEq(volt_out[k + 1][i], Normalize(PackedCode(i, k)))

\* C13: the engineering variable odf_wrapper builds has as many channels as
\* the sensor map has entries, the 5 - f_s frequency channels first and the
\* voltage channels after them, so that channel i is sensor-map index i.
C13_EngineeringFollowsSensorMap ==
    pc = "odf_returned" =>
        /\ Len(engineering) = Len(xmlcon_sensors)
        /\ \A c \in 0..(Len(engineering) - 1) : \A i \in 1..Len(scans) :
              IF c < 5 - f_s
              THEN engineering[c + 1][i] = FreqOfScan(scans[i], c)
              ELSE FracEq(engineering[c + 1][i],
                          Normalize(PackedCode(i, c - (5 - f_s))))

\* C14: hex_to_v takes sensor-map length minus (5 - f_s) as the number of
\* voltage channels, raises "Invalid channel indices" exactly when that number
\* is not positive, and returns without that error for every other map.
C14_InvalidIndicesIffNoVoltageChannel ==
    (HexToVReturned \/ pc = "hex_to_v_raised") =>
        /\ (err.msg = "Invalid channel indices")
              <=> (Len(xmlcon_sensors) - (5 - f_s) <= 0)
        /\ HexToVReturned => Len(volt_out) = Len(xmlcon_sensors) - (5 - f_s)

-----------------------------------------------------------------------------
(* The scheduler: convert_science of src/ctdcal/processors/sbs.py *)

\* sensor maps carry up to MaxVolt voltage channels after the frequency ones
MaxVolt == 1

\* a column of values, named by the function that produced it and the channel
\* it was produced for
Column(func, channel) == [func |-> func, channel |-> channel]

\* data.engineering[:, channel]
Eng(channel) == Column("engineering", channel)

\* a column of np.zeros
Zeros == Column("zeros", 0)

\* data.meta_columns.sel(variable=name)
Meta(name) == Column(name, 0)

\* the identity codes ctdcal/util/lookup_table.yaml has an entry for
LookupIDs == {"55", "45", "3", "38", "0", "11", "27", "61"}

\* sensor_lookup[key]: the function, short name and priority of an identity
\* code of the table
sensor_lookup(key) ==
    CASE key = "55" -> [function |-> "sbs.sbe3", short_name |-> "CTDTMP", priority |-> 1]
      [] key = "45" -> [function |-> "sbs.sbe9", short_name |-> "CTDPRS", priority |-> 2]
      [] key = "3" -> [function |-> "sbs.sbe4", short_name |-> "CTDCOND", priority |-> 3]
      [] key = "38" -> [function |-> "sbs.sbe43", short_name |-> "CTDOXY", priority |-> 5]
      [] key = "0" -> [function |-> "sbs.sbe_altimeter", short_name |-> "ALT", priority |-> 6]
      [] key = "11" -> [function |-> "sbs.seapoint_fluor", short_name |-> "FLUOR", priority |-> 6]
      [] key = "27" -> [function |-> "sbs.v_out", short_name |-> "FREE", priority |-> 6]
      [] key = "61" -> [function |-> "sbs.v_out", short_name |-> "U_DEF_poly", priority |-> 6]

\* function_map.get(name): the function without its module prefix, "None"
\* for a name that is not a key
function_map(name) ==
    CASE name = "sbs.sbe3" -> "sbe3"
      [] name = "sbs.sbe4" -> "sbe4"
      [] name = "sbs.sbe9" -> "sbe9"
      [] name = "sbs.sbe43" -> "sbe43"
      [] name = "sbs.sbe_altimeter" -> "sbe_altimeter"
      [] name = "sbs.seapoint_fluor" -> "seapoint_fluor"
      [] name = "sbs.v_out" -> "v_out"
      [] OTHER -> "None"

\* "rinko" in name.lower(), for the names the model uses
HasRinko(name) == name \in {"RINKO", "RINKO III"}

\* xmlcon_sensors[key]: the entry stored under the key
EntryAt(map, key) == map[CHOOSE i \in 1..Len(map) : map[i].index = key]

\* the rows of the frame built from the sensor map and the lookup table, in
\* dict order; idx is the row label
FrameRows(map) ==
    [i \in 1..Len(map) |->
        [idx |-> i - 1,
         channel |-> map[i].index,
         sensorID |-> map[i].SensorID,
         function |-> sensor_lookup(map[i].SensorID).function,
         short_name |-> sensor_lookup(map[i].SensorID).short_name,
         priority |-> sensor_lookup(map[i].SensorID).priority]]

RECURSIVE SortOrders(_, _)
\* sensor_df.sort_values(by="priority"): the row orders the sort may return
\* for the rows numbered in todo; the default sort kind is not stable, so rows
\* of equal priority come in any order
SortOrders(rows, todo) ==
    IF todo = {} THEN {<<>>}
    ELSE LET first == {i \in todo : \A j \in todo : rows[i].priority <= rows[j].priority}
         IN UNION {{<<rows[i]>> \o rest : rest \in SortOrders(rows, todo \ {i})} : i \in first}

\* lines 117-122: a FREE or U_DEF_poly row takes its short name from the
\* sensor's SensorName
Reassigned(map, r) ==
    IF r.short_name \in {"FREE", "U_DEF_poly"}
    THEN IF HasRinko(EntryAt(map, r.idx).SensorName)
         THEN [r EXCEPT !.short_name = "RINKO"]
         ELSE IF EntryAt(map, r.idx).SensorName # ""
         THEN [r EXCEPT !.short_name = EntryAt(map, r.idx).SensorName]
         ELSE r
    ELSE r

\* name_tracker[name] once row i has been visited: the rows up to i that
\* carry the short name of row i
TimesSeen(rows, i) == Cardinality({j \in 1..i : rows[j].short_name = rows[i].short_name})

\* lines 125-135: the first row visited with a short name keeps it, a later
\* one gets the number of times the name has been seen appended
NewNames(rows) ==
    [i \in 1..Len(rows) |->
        [seen |-> TimesSeen(rows, i),
         new_names |-> IF TimesSeen(rows, i) = 1
                       THEN rows[i].short_name
                       ELSE rows[i].short_name \o ToString(TimesSeen(rows, i))]
        @@ rows[i]]

\* new_names[-1].isdigit(): none of the short names ends in a digit
EndsInDigit(r) == r.seen > 1

\* sensor_df.sort_values("channel")["new_names"]: the channel coordinate
ChannelCoord(rows) ==
    [c \in 1..Len(rows) |->
        LET below(i) == Cardinality({j \in 1..Len(rows) : rows[j].channel < rows[i].channel})
        IN rows[CHOOSE i \in 1..Len(rows) : below(i) = c - 1].new_names]

\* science_temp.sel(channel=name): the columns under the name, KeyError when
\* there is none
Sel(st, name) ==
    LET at == {c \in 1..Len(st.channel) : st.channel[c] = name}
        RECURSIVE Cols(_)
        Cols(c) == IF c > Len(st.channel) THEN <<>>
                   ELSE (IF c \in at THEN <<st.values[c]>> ELSE <<>>) \o Cols(c + 1)
    IN [ok |-> at # {}, data |-> Cols(1)]

\* science_temp.loc[:, science_temp.channel[channel]] = data_out
Stored(st, channel, data_out) ==
    [st EXCEPT !.values = [c \in 1..Len(st.channel) |->
                              IF st.channel[c] = st.channel[channel + 1]
                              THEN data_out
                              ELSE st.values[c]]]

\* what one pass of the main loop does for a row: the exception it raises or
\* the equation it calls and the column it gets back
Failed(type, msg) == [ok |-> FALSE, type |-> type, msg |-> msg, call |-> <<>>, data_out |-> Zeros]
Called(call, data_out) == [ok |-> TRUE, type |-> "none", msg |-> "", call |-> <<call>>, data_out |-> data_out]

\* func(...) for one of the equations: it raises KeyError out of _check_coefs
\* when the coefficients it reads are missing
Equation(call, coefs_ok) ==
    IF call.func = "None" THEN Failed("TypeError", "not callable")
    ELSE IF call.func = "v_out" THEN Called(call, call.x)
    ELSE IF ~coefs_ok THEN [Failed("KeyError", "Coefficient dictionary missing keys")
                               EXCEPT !.call = <<call>>]
    ELSE Called(call, Column(call.func, call.channel))

\* lines 156-227: the match statement
Dispatch(map, st, r) ==
    LET func == function_map(r.function)
        coefs == EntryAt(map, r.channel).coefs
        x == Eng(r.channel)
    IN CASE r.sensorID = "55" ->
              Equation([func |-> func, channel |-> r.channel, x |-> x], coefs)
         [] r.sensorID = "45" ->
              Equation([func |-> func, channel |-> r.channel, x |-> x,
                        t_probe |-> Meta("sbe9_temp")], coefs)
         [] r.sensorID = "3" ->
              LET t == IF EndsInDigit(r) THEN Sel(st, "CTDTMP2") ELSE Sel(st, "CTDTMP")
                  p == Sel(st, "CTDPRS")
              IN IF ~t.ok \/ ~p.ok THEN Failed("KeyError", "channel")
                 ELSE Equation([func |-> func, channel |-> r.channel, x |-> x,
                                t |-> t.data, p |-> p.data], coefs)
         [] r.sensorID = "38" ->
              LET t == IF EndsInDigit(r) THEN Sel(st, "CTDTMP2") ELSE Sel(st, "CTDTMP")
                  c == IF EndsInDigit(r) THEN Sel(st, "CTDCOND2") ELSE Sel(st, "CTDCOND")
                  p == Sel(st, "CTDPRS")
              IN IF ~t.ok \/ ~c.ok \/ ~p.ok THEN Failed("KeyError", "channel")
                 ELSE Equation([func |-> func, channel |-> r.channel, x |-> x,
                                p |-> p.data, t |-> t.data, c |-> c.data], coefs)
         [] r.sensorID \in {"0", "11"} ->
              Equation([func |-> func, channel |-> r.channel, x |-> x], coefs)
         [] r.sensorID = "61" ->
              IF HasRinko(r.short_name)
              THEN IF ~EndsInDigit(r)
                   THEN LET p == Sel(st, "CTDPRS")
                        IN IF ~p.ok THEN Failed("KeyError", "channel")
                           ELSE Equation([func |-> "sbe43_hysteresis_voltage",
                                          channel |-> r.channel, x |-> x, p |-> p.data], TRUE)
                   ELSE Equation([func |-> "v_out", channel |-> r.channel, x |-> x], TRUE)
              ELSE Equation([func |-> func, channel |-> r.channel, x |-> x], TRUE)
         [] OTHER ->
              Equation([func |-> func, channel |-> r.channel, x |-> x], TRUE)

\* lines 94-153: the frame is built, sorted and named and science_temp is
\* preallocated; a sensor identity code without a table entry raises KeyError
SciPrepare ==
    /\ pc = "science"
    /\ IF \E i \in 1..Len(xmlcon_sensors) : xmlcon_sensors[i].SensorID \notin LookupIDs
       THEN /\ pc' = "science_raised"
            /\ err' = Raise("KeyError", "sensor_lookup", 0)
            /\ UNCHANGED <<sensor_df, science_temp>>
       ELSE /\ \E sorted \in SortOrders(FrameRows(xmlcon_sensors), 1..Len(xmlcon_sensors)) :
                  LET rows == NewNames([i \in 1..Len(sorted) |->
                                           Reassigned(xmlcon_sensors, sorted[i])])
                  IN /\ sensor_df' = rows
                     /\ science_temp' = [channel |-> ChannelCoord(rows),
                                         values |-> [c \in 1..Len(rows) |-> Zeros]]
            /\ pc' = "science_loop"
            /\ err' = err
    /\ UNCHANGED <<hex, errors, lines, lineno, comments, out, datalen, linelen, ds, encoded,
                   scans, eng, odfVars, rows_done, science, calls, cnvVars, eqVars, xmlVars>>

\* the pass also attaches what has been converted so far to the dataset
SciConvertAttaching ==
    /\ pc = "science_loop"
    /\ rows_done < Len(sensor_df)
    /\ LET r == Dispatch(xmlcon_sensors, science_temp, sensor_df[rows_done + 1])
       IN /\ calls' = calls \o r.call
          /\ science' = <<science_temp>>
          /\ IF r.ok
             THEN /\ science_temp' = Stored(science_temp, sensor_df[rows_done + 1].channel,
                                            r.data_out)
                  /\ rows_done' = rows_done + 1
                  /\ UNCHANGED <<pc, err>>
             ELSE /\ pc' = "science_raised"
                  /\ err' = Raise(r.type, r.msg, 0)
                  /\ UNCHANGED <<science_temp, rows_done>>
    /\ UNCHANGED <<hex, errors, lines, lineno, comments, out, datalen, linelen, ds, encoded,
                   scans, eng, odfVars, sensor_df, cnvVars, eqVars, xmlVars>>

\* one pass of `for channel in sensor_df.channel`
SciConvert ==
    /\ pc = "science_loop"
    /\ rows_done < Len(sensor_df)
    /\ LET r == Dispatch(xmlcon_sensors, science_temp, sensor_df[rows_done + 1])
       IN /\ calls' = calls \o r.call
          /\ IF r.ok
             THEN /\ science_temp' = Stored(science_temp, sensor_df[rows_done + 1].channel,
                                            r.data_out)
                  /\ rows_done' = rows_done + 1
                  /\ UNCHANGED <<pc, err>>
             ELSE /\ pc' = "science_raised"
                  /\ err' = Raise(r.type, r.msg, 0)
                  /\ UNCHANGED <<science_temp, rows_done>>
    /\ UNCHANGED <<hex, errors, lines, lineno, comments, out, datalen, linelen, ds, encoded,
                   scans, eng, odfVars, sensor_df, science, cnvVars, eqVars, xmlVars>>

\* lines 231-233: data["science"] = science_temp; return data
SciAttach ==
    /\ pc = "science_loop"
    /\ rows_done = Len(sensor_df)
    /\ science' = <<science_temp>>
    /\ pc' = "science_returned"
    /\ UNCHANGED <<hex, errors, lines, lineno, comments, out, datalen, linelen, ds, encoded,
                   scans, eng, err, odfVars, sensor_df, science_temp, rows_done, calls, cnvVars, eqVars, xmlVars>>

-----------------------------------------------------------------------------
(* The scheduler: cnv_handler_2 of src/converter_scaffolding.py *)

\* the list id of the salinity item, which belongs to no channel
SalinityListId == 1000

\* sbe_reader.parsed_scans[:, i]
Raw(i) == Column("parsed_scans", i)

\* the number of sensors with the identity code among the first i entries:
\* temp_counter, cond_counter, oxygen_counter after entry i
Counter(info, id, i) == Cardinality({j \in 1..i : info[j].SensorID = id})

\* the item the loop of lines 111-136 appends for list index i - 1; a
\* channel_pos of '' is written 0
QueueItem(info, i) ==
    LET sensor_id == info[i].SensorID
    IN CASE sensor_id = "55" ->
              [sensor_id |-> "55", list_id |-> i - 1,
               channel_pos |-> Counter(info, "55", i), ranking |-> 1]
         [] sensor_id = "3" ->
              [sensor_id |-> "3", list_id |-> i - 1,
               channel_pos |-> Counter(info, "3", i), ranking |-> 3]
         [] sensor_id = "45" ->
              [sensor_id |-> "45", list_id |-> i - 1, channel_pos |-> 0, ranking |-> 2]
         [] sensor_id = "38" ->
              [sensor_id |-> "38", list_id |-> i - 1,
               channel_pos |-> Counter(info, "38", i), ranking |-> 5]
         [] OTHER ->
              [sensor_id |-> sensor_id, list_id |-> i - 1, channel_pos |-> 0, ranking |-> 6]

\* line 139: the salinity item
SalinityItem ==
    [sensor_id |-> "1000", list_id |-> SalinityListId, channel_pos |-> 0, ranking |-> 4]

\* the queue is left in the order the items were appended
SortedAsAppended(queue) == queue

\* sorted(queue_metadata, key = lambda sensor: sensor['ranking']): the sort
\* is stable, items of equal ranking keep their order
SortedByRanking(queue) ==
    LET Ranked(n) == SelectSeq(queue, LAMBDA item : item.ranking = n)
    IN Ranked(1) \o Ranked(2) \o Ranked(3) \o Ranked(4) \o Ranked(5) \o Ranked(6)

\* lines 111-141: the queue is built from the parsed configuration, the
\* salinity item is appended and the queue is sorted
CnvBuildQueue ==
    /\ pc = "cnv"
    /\ queue_metadata' =
          SortedByRanking(Append([i \in 1..Len(sensor_info) |-> QueueItem(sensor_info, i)],
                                 SalinityItem))
    /\ pc' = "cnv_loop"
    /\ UNCHANGED <<hex, errors, lines, lineno, comments, out, datalen, linelen, ds, encoded,
                   scans, eng, err, odfVars, sciVars, calls, sensor_info, processed_data,
                   t_array, p_array, c_array, k_array, eqVars, xmlVars>>

\* the equation one pass of the while loop calls for the item, with the
\* arrays it is handed; the auxiliary block calls none
CnvCall(item) ==
    CASE item.sensor_id = "55" ->
           <<[func |-> "temp_its90_dict", channel |-> item.list_id, x |-> Raw(item.list_id)]>>
      [] item.sensor_id = "45" ->
           <<[func |-> "pressure_dict", channel |-> item.list_id, x |-> Raw(item.list_id),
              t |-> t_array]>>
      [] item.sensor_id = "3" ->
           <<[func |-> "cond_dict", channel |-> item.list_id, x |-> Raw(item.list_id),
              t |-> t_array, p |-> p_array]>>
      [] item.sensor_id = "38" ->
           <<[func |-> "oxy_dict", channel |-> item.list_id, x |-> Raw(item.list_id),
              p |-> p_array, k |-> k_array, t |-> t_array, c |-> c_array]>>
      [] item.sensor_id = "11" ->
           <<[func |-> "fluoro_seapoint_dict", channel |-> item.list_id,
              x |-> Raw(item.list_id)]>>
      [] item.sensor_id = "1000" ->
           <<[func |-> "sp_dict", channel |-> item.list_id, c |-> c_array, t |-> t_array,
              p |-> p_array]>>
      [] OTHER -> <<>>

\* temp_meta['sci_data']
SciData(item) ==
    IF CnvCall(item) = <<>> THEN Raw(item.list_id)
    ELSE Column(CnvCall(item)[1].func, item.list_id)

\* one pass of `while queue_metadata`
CnvProcess ==
    /\ pc = "cnv_loop"
    /\ queue_metadata # <<>>
    /\ LET temp_meta == Head(queue_metadata)
       IN /\ queue_metadata' = Tail(queue_metadata)
          /\ calls' = calls \o CnvCall(temp_meta)
          /\ processed_data' = Append(processed_data,
                                      [sci_data |-> SciData(temp_meta)] @@ temp_meta)
          /\ t_array' = IF temp_meta.sensor_id = "55" /\ temp_meta.list_id = 0
                        THEN <<SciData(temp_meta)>> ELSE t_array
          /\ k_array' = IF temp_meta.sensor_id = "55" /\ temp_meta.list_id = 0
                        THEN <<Column("kelvin", temp_meta.list_id)>> ELSE k_array
          /\ p_array' = IF temp_meta.sensor_id = "45" /\ temp_meta.list_id = 2
                        THEN <<SciData(temp_meta)>> ELSE p_array
          /\ c_array' = IF temp_meta.sensor_id = "3" /\ temp_meta.list_id = 1
                        THEN <<SciData(temp_meta)>> ELSE c_array
    /\ UNCHANGED <<hex, errors, lines, lineno, comments, out, datalen, linelen, ds, encoded,
                   scans, eng, pc, err, odfVars, sciVars, sensor_info, eqVars, xmlVars>>

\* lines 201-246: the queue is empty, the processed columns are written out
CnvReturn ==
    /\ pc = "cnv_loop"
    /\ queue_metadata = <<>>
    /\ pc' = "cnv_returned"
    /\ UNCHANGED <<hex, errors, lines, lineno, comments, out, datalen, linelen, ds, encoded,
                   scans, eng, err, odfVars, sciVars, calls, cnvVars, eqVars, xmlVars>>

-----------------------------------------------------------------------------
(* The sensor maps the schedulers are run on *)

\* the sensors of the frequency channels
FreqKinds == {"55", "45", "3"}

\* the sensors of the voltage channels: oxygen with and without its
\* coefficients, a free channel, a user polynomial channel of a RINKO, and an
\* identity code the lookup table has no entry for
VoltKinds ==
    {[SensorID |-> "38", SensorName |-> "", coefs |-> TRUE],
     [SensorID |-> "38", SensorName |-> "", coefs |-> FALSE],
     [SensorID |-> "27", SensorName |-> "", coefs |-> TRUE],
     [SensorID |-> "61", SensorName |-> "RINKO III", coefs |-> TRUE],
     [SensorID |-> "99", SensorName |-> "", coefs |-> TRUE]}

\* a sensor map: frequency sensors in any order on the first channels, then
\* voltage sensors, with the keys 0, 1, 2, ... in dict order
SensorMaps ==
    {[i \in 1..(Len(f) + Len(v)) |->
        IF i <= Len(f)
        THEN Sensor(i - 1, f[i], "", TRUE)
        ELSE Sensor(i - 1, v[i - Len(f)].SensorID, v[i - Len(f)].SensorName,
                    v[i - Len(f)].coefs)] :
     f \in UNION {[1..n -> FreqKinds] : n \in 1..FreqChannels},
     v \in UNION {[1..m -> VoltKinds] : m \in 0..MaxVolt}}

\* one of the two schedulers is called on a sensor map; data has the
\* variables engineering and meta_columns
InitSched ==
    /\ pc \in {"science", "cnv"}
    /\ \E map \in SensorMaps :
          /\ xmlcon_sensors = IF pc = "science" THEN map ELSE <<>>
          /\ sensor_info = IF pc = "cnv" THEN map ELSE <<>>
          /\ engineering = IF pc = "science" THEN [c \in 1..Len(map) |-> Eng(c - 1)] ELSE <<>>
    /\ f_s = 0
    /\ freq_out = <<>>
    /\ volt_out = <<>>
    /\ SciIdle /\ EqIdle /\ XmlIdle
    /\ queue_metadata = <<>>
    /\ processed_data = <<>>
    /\ t_array = <<>>
    /\ p_array = <<>>
    /\ c_array = <<>>
    /\ k_array = <<>>
    /\ scans = <<>>
    /\ eng = NoEng
    /\ hex = <<>>
    /\ errors = "ignore"
    /\ lines = <<>>
    /\ lineno = 0
    /\ comments = <<>>
    /\ out = <<>>
    /\ datalen = 0
    /\ linelen = <<>>
    /\ err = NoErr
    /\ ds = NoDs
    /\ encoded = <<>>

NextSched ==
    \/ SciPrepare \/ SciConvert \/ SciAttach
    \/ CnvBuildQueue \/ CnvProcess \/ CnvReturn

SpecSched == InitSched /\ [][NextSched]_vars

-----------------------------------------------------------------------------
(* Claims about the schedulers *)

\* the scheduler that was called
SciMode == xmlcon_sensors # <<>>
CnvMode == sensor_info # <<>>

\* the sensor map the scheduler was called on
TheMap == IF SciMode THEN xmlcon_sensors ELSE sensor_info

\* the channels of the sensor map that carry the identity code
ChannelsOf(id) == {TheMap[i].index : i \in {j \in 1..Len(TheMap) : TheMap[j].SensorID = id}}

\* the lowest of a non-empty set of channels
Lowest(chs) == CHOOSE c \in chs : \A d \in chs : c <= d

\* the priority rank of an identity code: temperature 1, pressure 2,
\* conductivity 3, salinity 4, oxygen 5, anything else 6
Rank(id) ==
    CASE id = "55" -> 1
      [] id = "45" -> 2
      [] id = "3" -> 3
      [] id = "1000" -> 4
      [] id = "38" -> 5
      [] OTHER -> 6

\* the calls of the conductivity, salinity and oxygen equations
DependentFuncs == {"sbe4", "sbe43", "cond_dict", "sp_dict", "oxy_dict"}

\* C15: both schedulers process their items in non-decreasing priority rank
\* (temperature 1, pressure 2, conductivity 3, salinity 4, oxygen 5, else 6),
\* and the result of every temperature channel is stored before any
\* conductivity, salinity or oxygen item is computed.
C15_PriorityOrder ==
    /\ CnvMode =>
          /\ \A i \in 1..Len(processed_data) :
                /\ processed_data[i].ranking = Rank(processed_data[i].sensor_id)
                /\ \A j \in 1..Len(processed_data) :
                      i < j => processed_data[i].ranking <= processed_data[j].ranking
          /\ \A j \in 1..Len(processed_data) :
                processed_data[j].sensor_id \in {"3", "1000", "38"} =>
                    \A ch \in ChannelsOf("55") :
                        \E i \in 1..(j - 1) :
                            /\ processed_data[i].list_id = ch
                            /\ processed_data[i].sci_data = Column("temp_its90_dict", ch)
    /\ SciMode =>
          /\ \A i \in 1..Len(sensor_df) :
                /\ sensor_df[i].priority = Rank(sensor_df[i].sensorID)
                /\ \A j \in 1..Len(sensor_df) :
                      i < j => sensor_df[i].priority <= sensor_df[j].priority
          /\ \A k \in 1..Len(calls) :
                /\ calls[k].channel = sensor_df[k].channel
                /\ calls[k].func \in DependentFuncs =>
                      \A ch \in ChannelsOf("55") :
                          science_temp.values[ch + 1] = Column("sbe3", ch)

\* C15 witness: cnv_handler_2 has processed a map whose first channel is a
\* conductivity sensor and which has two temperature sensors and an oxygen
\* sensor: both temperatures come first, salinity before oxygen.
C15_Witness ==
    /\ pc = "cnv_returned"
    /\ sensor_info[1].SensorID = "3"
    /\ Cardinality(ChannelsOf("55")) = 2
    /\ ChannelsOf("45") # {} /\ ChannelsOf("38") # {}
    /\ processed_data[1].sensor_id = "55" /\ processed_data[2].sensor_id = "55"
    /\ \E i \in 1..(Len(processed_data) - 1) :
          processed_data[i].sensor_id = "1000" /\ processed_data[i + 1].sensor_id = "38"

\* arg is a resolved dependency: a column some equation of funcs returned
Resolved(arg, funcs) == arg # <<>> /\ \A i \in 1..Len(arg) : arg[i].func \in funcs

TempFuncs == {"sbe3", "temp_its90_dict"}
PresFuncs == {"sbe9", "pressure_dict"}
CondFuncs == {"sbe4", "cond_dict"}

\* C16: on a sensor map with at least one temperature, one pressure and one
\* conductivity sensor, at any channels, conductivity is dispatched with a
\* resolved temperature and pressure, oxygen with resolved temperature,
\* pressure and conductivity, salinity with resolved temperature, conductivity
\* and pressure: no equation is handed an empty or missing dependency.
C16_DependenciesResolved ==
    (ChannelsOf("55") # {} /\ ChannelsOf("45") # {} /\ ChannelsOf("3") # {}) =>
        \A k \in 1..Len(calls) :
            /\ calls[k].func \in CondFuncs =>
                  Resolved(calls[k].t, TempFuncs) /\ Resolved(calls[k].p, PresFuncs)
            /\ calls[k].func \in {"sbe43", "oxy_dict", "sp_dict"} =>
                  /\ Resolved(calls[k].t, TempFuncs)
                  /\ Resolved(calls[k].p, PresFuncs)
                  /\ Resolved(calls[k].c, CondFuncs)

\* the column the equation of the scheduler returns for a temperature
\* (conductivity) sensor at channel ch
TempColumn(ch) == Column(IF SciMode THEN "sbe3" ELSE "temp_its90_dict", ch)
CondColumn(ch) == Column(IF SciMode THEN "sbe4" ELSE "cond_dict", ch)

\* C17: when a sensor type occurs twice, the instance at the lowest channel
\* is the primary one and is the one passed to every dependent equation
\* (conductivity, salinity, oxygen); the result of the later instance is
\* stored but never passed to another equation.
C17_LowestChannelIsPrimary ==
    \A k \in 1..Len(calls) :
        calls[k].func \in DependentFuncs =>
            /\ Cardinality(ChannelsOf("55")) = 2 =>
                  calls[k].t = <<TempColumn(Lowest(ChannelsOf("55")))>>
            /\ (Cardinality(ChannelsOf("3")) = 2 /\ calls[k].func \notin CondFuncs) =>
                  calls[k].c = <<CondColumn(Lowest(ChannelsOf("3")))>>

\* C18: of two channels of convert_science with the same base short name the
\* one with the lower channel index keeps the bare name and the other gets
\* the suffix "2", whatever the order the rows are visited in after sorting.
C18_LowerChannelKeepsBareName ==
    \A a, b \in 1..Len(sensor_df) :
        ( /\ sensor_df[a].short_name = sensor_df[b].short_name
          /\ sensor_df[a].channel < sensor_df[b].channel
          /\ Cardinality({i \in 1..Len(sensor_df) :
                             sensor_df[i].short_name = sensor_df[a].short_name}) = 2 ) =>
            /\ sensor_df[a].new_names = sensor_df[a].short_name
            /\ sensor_df[b].new_names = sensor_df[b].short_name \o "2"

\* C19: when an equation raises while convert_science runs, the exception
\* ends the call and the dataset has no "science" variable: science is only
\* ever attached, complete, by a call that returns.
C19_NoPartialScience ==
    /\ pc = "science_raised" => science = <<>>
    /\ science # <<>> =>
          /\ pc = "science_returned"
          /\ rows_done = Len(sensor_df)
          /\ science = <<science_temp>>

\* C19 witness: the oxygen equation raised for its missing coefficients after
\* three columns had been written to science_temp.
C19_Witness ==
    /\ pc = "science_raised"
    /\ err.msg = "Coefficient dictionary missing keys"
    /\ rows_done = 3
    /\ calls[Len(calls)].func = "sbe43"
    /\ \E c \in 1..Len(science_temp.values) : science_temp.values[c] # Zeros

\* C20: a channel whose identity code maps to no known equation never aborts
\* the build of convert_science: for every such code the build completes and
\* the channel's science column equals its engineering column.
C20_UnknownIdentityPassesThrough ==
    SciMode =>
        /\ pc = "science_raised" => err.msg # "sensor_lookup"
        /\ pc = "science_returned" =>
              \A i \in 1..Len(xmlcon_sensors) :
                  xmlcon_sensors[i].SensorID \in {"27", "99"} =>
                      science[1].values[i] = engineering[i]

-----------------------------------------------------------------------------
(* The packing of two voltage channels in a three-byte group *)

\* the other channel of the three-byte group of channel n
Partner(n) == IF n % 2 = 0 THEN n + 1 ELSE n - 1

\* the 24-bit big-endian integer of the three-byte group of channel n in
\* scan i
Group24(i, n, suppressed) ==
    ByteAt(i, (5 - suppressed) * 3 + 3 * (n \div 2)) * 65536
    + ByteAt(i, (5 - suppressed) * 3 + 3 * (n \div 2) + 1) * 256
    + ByteAt(i, (5 - suppressed) * 3 + 3 * (n \div 2) + 2)

\* C29: for the three bytes of a group, the code decoded for the even channel
\* 2k and the code decoded for the odd channel 2k+1 satisfy
\* code_even * 4096 + code_odd = the 24-bit big-endian integer of the group.
C29_PackingIsLosslessPartition ==
    ( /\ eng.op = "get_channel_voltage" /\ eng.ok
      /\ get_channel_voltage(scans, Partner(eng.channel), eng.f_s).ok ) =>
        \A i \in 1..Len(scans) :
            LET other == get_channel_voltage(scans, Partner(eng.channel), eng.f_s).code[i]
                code_even == IF eng.channel % 2 = 0 THEN eng.code[i] ELSE other
                code_odd == IF eng.channel % 2 = 0 THEN other ELSE eng.code[i]
            IN code_even * 4096 + code_odd = Group24(i, eng.channel, eng.f_s)

\* C29 witness: channel 1 decoded from the group 0x0F, 0xF0, 0xFF: the even
\* code is 0x0FF and the odd code 0x0FF.
C29_Witness ==
    /\ eng.op = "get_channel_voltage" /\ eng.ok
    /\ eng.channel = 1
    /\ Group24(1, 1, eng.f_s) = 15 * 65536 + 240 * 256 + 255
    /\ eng.code[1] = 255
    /\ get_channel_voltage(scans, 0, eng.f_s).code[1] = 255

-----------------------------------------------------------------------------
(* The equations of src/ctdcal/processors/sbs.py *)

\* a series holds up to MaxSeries scans
MaxSeries == 2
\* a coefficient dict lacks up to MaxMissing keys
MaxMissing == 1

\* an entry of a float array: np.nan or a number
NaN == [nan |-> TRUE, v |-> 0]

Value(v) == [nan |-> FALSE, v |-> v]

\* use_coefs of each conversion function
use_coefs(func) ==
    CASE func = "sbe3" -> {"G", "H", "I", "J", "F0"}
      [] func = "sbe4" -> {"G", "H", "I", "J", "CPcor", "CTcor"}
      [] func = "sbe9" -> {"T1", "T2", "T3", "T4", "T5", "C1", "C2", "C3", "D1", "D2",
                           "AD590M", "AD590B", "Slope", "Offset"}
      [] func = "sbe43" -> {"Soc", "offset", "Tau20", "A", "B", "C", "E"}
      [] func = "sbe43_hysteresis_voltage" -> {"H1", "H2", "H3", "offset"}
      [] func = "sbe_altimeter" -> {"ScaleFactor", "Offset"}
      [] func = "seapoint_fluor" -> {"GainSetting", "Offset"}
      [] OTHER -> {}

\* the conversion functions
EqFuncs ==
    {"sbe3", "sbe4", "sbe9", "sbe43", "sbe43_hysteresis_voltage", "sbe_altimeter",
     "seapoint_fluor"}

\* one statement of a function body: a call of _check_coefs for the keys, of
\* _check_freq or _check_volts, the loop coefs[key] = float(coefs[key]) over
\* the keys, the hysteresis recurrence, or the rest of the computation
Step(op, func) == [op |-> op, func |-> func]

\* the statements sbe43_hysteresis_voltage executes, in order
HystSteps ==
    <<Step("check_coefs", "sbe43_hysteresis_voltage"),
      Step("check_volts", "sbe43_hysteresis_voltage"),
      Step("float", "sbe43_hysteresis_voltage"),
      Step("hysteresis", "sbe43_hysteresis_voltage")>>

\* the statements a function executes, in order
Steps(func, hyst_check) ==
    CASE func = "sbe3" ->
           <<Step("check_coefs", func), Step("check_freq", func), Step("float", func),
             Step("compute", func)>>
      [] func \in {"sbe4", "sbe9"} ->
           <<Step("check_coefs", func), Step("float", func), Step("check_freq", func),
             Step("compute", func)>>
      [] func = "sbe43" ->
           <<Step("check_coefs", func), Step("check_volts", func), Step("float", func)>>
           \o (IF hyst_check THEN HystSteps ELSE <<>>) \o <<Step("compute", func)>>
      [] func = "sbe43_hysteresis_voltage" -> HystSteps
      [] func = "sbe_altimeter" ->
           <<Step("check_coefs", func), Step("check_volts", func), Step("float", func),
             Step("compute", func)>>
      [] func = "seapoint_fluor" -> <<Step("check_coefs", func), Step("compute", func)>>
      [] func = "_check_freq" -> <<Step("check_freq", func)>>
      [] func = "_check_volts" -> <<Step("check_volts", func)>>

\* sorted(set(expected) - set(coefs_in)), as a set
missing_coefs(dict, expected) == expected \ DOMAIN dict

\* the zero entries are left as they are
check_freq_KeepsZero(freq) == [i \in 1..Len(freq) |-> Value(freq[i])]

\* _check_freq: the array with its zero entries replaced by NaN
check_freq(freq) ==
    [i \in 1..Len(freq) |-> IF freq[i] = 0 THEN NaN ELSE Value(freq[i])]

\* _check_volts reaches one of its two uses of the name `log`, which the
\* module does not define: the dtype is not float, or a value lies outside
\* v_min..v_max
NeedsLog(volts, dtype) ==
    \/ dtype # "float64"
    \/ \E i \in 1..Len(volts) : volts[i] < 0 \/ volts[i] > 5

\* the statement being executed
Doing(op) == pc = "eq" /\ eq.steps # <<>> /\ Head(eq.steps).op = op

\* the statement is done: the call goes on, or returns after its last one
Advance(data) ==
    /\ eq' = [eq EXCEPT !.steps = Tail(eq.steps),
                        !.done = Append(eq.done, Head(eq.steps)),
                        !.series = data]
    /\ IF Len(eq.steps) = 1
       THEN pc' = "eq_returned" /\ ret' = <<[ok |-> TRUE, type |-> "none", missing |-> {},
                                             data |-> data]>>
       ELSE UNCHANGED <<pc, ret>>

\* the statement raises
Abort(type, missing) ==
    /\ pc' = "eq_raised"
    /\ ret' = <<[ok |-> FALSE, type |-> type, missing |-> missing, data |-> <<>>]>>
    /\ eq' = eq

OtherThanEq ==
    <<hex, errors, lines, lineno, comments, out, datalen, linelen, err, ds, encoded, scans, eng,
      odfVars, sciVars, calls, cnvVars, xmlVars>>

\* _check_coefs(coefs, use_coefs)
EqCheckCoefs ==
    /\ Doing("check_coefs")
    /\ IF missing_coefs(coefs_in, use_coefs(Head(eq.steps).func)) # {}
       THEN Abort("KeyError", missing_coefs(coefs_in, use_coefs(Head(eq.steps).func)))
       ELSE Advance(eq.series)
    /\ UNCHANGED <<coefs_in, OtherThanEq>>

\* _check_freq(freq)
EqCheckFreq ==
    /\ Doing("check_freq")
    /\ Advance(check_freq(eq.series))
    /\ UNCHANGED <<coefs_in, OtherThanEq>>

\* _check_volts(volts)
EqCheckVolts ==
    /\ Doing("check_volts")
    /\ IF NeedsLog(eq.series, eq.dtype)
       THEN Abort("NameError", {})
       ELSE Advance(eq.series)
    /\ UNCHANGED <<coefs_in, OtherThanEq>>

\* for key in use_coefs: coefs[key] = float(coefs[key])
EqFloatCoefs ==
    /\ Doing("float")
    /\ coefs_in' = [k \in DOMAIN coefs_in |->
                       IF k \in use_coefs(Head(eq.steps).func) THEN "float" ELSE coefs_in[k]]
    /\ Advance(eq.series)
    /\ UNCHANGED OtherThanEq

\* fractions with positive denominators
FAdd(x, y) == Frac(x.num * y.den + y.num * x.den, x.den * y.den)

FSub(x, y) == Frac(x.num * y.den - y.num * x.den, x.den * y.den)

FMul(x, y) == Frac(x.num * y.num, x.den * y.den)

\* x / d for a whole d > 0
FDivWhole(x, d) == Frac(x.num, x.den * d)

\* x = y for fractions of either sign
FSame(x, y) == x.num * y.den = y.num * x.den

\* D = 1 + H1 * (exp(p / H2) - 1) of one scan, which is 1 at the surface and
\* grows with the pressure; the pressures are whole multiples of the one
\* that makes the second term 1
D(p) == 1 + p

\* C = exp(-dt / H3): a number between 0 and 1
C == Frac(1, 2)

\* the recurrence without its division
hyst_step_NoDivide(cur, before, new_before, Di) ==
    FSub(FAdd(cur, FMul(FMul(new_before, C), Whole(Di))), FMul(before, C))

\* ((oxy_volts[i] + (oxy_volts_new[i - 1] * C * D[i])) - (oxy_volts[i - 1] * C)) / D[i]
hyst_step(cur, before, new_before, Di) ==
    FDivWhole(FSub(FAdd(cur, FMul(FMul(new_before, C), Whole(Di))), FMul(before, C)), Di)

\* oxy_volts_new[i] (1-based) of the loop over np.arange(1, len(oxy_volts))
RECURSIVE oxy_volts_new(_, _, _)
oxy_volts_new(oxy_volts, p, i) ==
    IF i = 1
    THEN Whole(oxy_volts[1])
    ELSE hyst_step(Whole(oxy_volts[i]), Whole(oxy_volts[i - 1]),
                   oxy_volts_new(oxy_volts, p, i - 1), D(p[i]))

\* the body of sbe43_hysteresis_voltage after its checks: volts_corrected
volts_corrected(volts, p, offset) ==
    LET oxy_volts == [i \in 1..Len(volts) |-> volts[i] + offset]
    IN  [i \in 1..Len(volts) |-> FSub(oxy_volts_new(oxy_volts, p, i), Whole(offset))]

\* the recurrence of sbe43_hysteresis_voltage
EqHysteresis ==
    /\ Doing("hysteresis")
    /\ Advance(volts_corrected(eq.series, eq.p, eq.offset))
    /\ UNCHANGED <<coefs_in, OtherThanEq>>

\* what remains of the function: the polynomial of the values it kept. sbe43
\* computes with `volts`, which only the hysteresis branch reassigns
EqCompute ==
    /\ Doing("compute")
    /\ LET func == Head(eq.steps).func
           kept == IF func = "seapoint_fluor" \/ (func = "sbe43" /\ ~eq.hyst_check)
                   THEN eq.input ELSE eq.series
       IN  Advance([i \in 1..Len(kept) |-> [func |-> func, of |-> kept[i]]])
    /\ UNCHANGED <<coefs_in, OtherThanEq>>

\* voltages on both sides of 0 V and of 5 V
VoltSamples == {-1, 0, 3, 5, 6}

\* frequencies, zero among them
FreqSamples == {0, 1000, 2000}

\* pressures
PresSamples == {0, 1, 2}

\* values of coefs["offset"]
OffsetSamples == {-1, 1}

\* the sequences over S of the lengths 1..MaxSeries
Series(S) == UNION {[1..n -> S] : n \in 1..MaxSeries}

\* the mapping with the keys present, every value of the one type: str as
\* parse_xmlcon leaves it, float after an earlier call
CoefDict(keys, type) == [k \in keys |-> type]

\* a call of one conversion function, or of one of the two checks
InitEq ==
    /\ pc = "eq"
    /\ hex = <<>> /\ errors = "ignore" /\ lines = <<>> /\ lineno = 0 /\ comments = <<>>
    /\ out = <<>> /\ datalen = 0 /\ linelen = <<>> /\ err = NoErr /\ ds = NoDs
    /\ encoded = <<>> /\ scans = <<>> /\ eng = NoEng
    /\ OdfIdle /\ SciIdle /\ CnvIdle /\ XmlIdle
    /\ ret = <<>>
    /\ \E func \in EqFuncs \cup {"_check_freq", "_check_volts"}, hyst_check \in BOOLEAN,
          dtype \in {"float64", "int64"}, type \in {"str", "float"},
          offset \in OffsetSamples :
          LET needed == use_coefs(func) \cup
                          (IF func = "sbe43" THEN use_coefs("sbe43_hysteresis_voltage")
                           ELSE {})
              uses_freq == func \in {"sbe3", "sbe4", "sbe9", "_check_freq"}
              recurs == func = "sbe43_hysteresis_voltage" \/ (func = "sbe43" /\ hyst_check)
          IN  /\ hyst_check => func = "sbe43"
              /\ func \in {"_check_freq", "_check_volts"} => type = "str"
              /\ ~recurs => offset = 1
              /\ \E missing \in SUBSET needed,
                    values \in Series(IF uses_freq THEN FreqSamples ELSE VoltSamples) :
                    /\ Cardinality(missing) <= MaxMissing
                    /\ missing # {} => Len(values) = 1 /\ dtype = "float64"
                    /\ coefs_in = CoefDict(needed \ missing, type)
                    /\ \E p \in Series(PresSamples) :
                          /\ Len(p) = Len(values)
                          /\ ~recurs => \A i \in 1..Len(p) : p[i] = 0
                          /\ eq = [func |-> func, hyst_check |-> hyst_check,
                                   steps |-> Steps(func, hyst_check), done |-> <<>>,
                                   input |-> values, series |-> values, dtype |-> dtype,
                                   p |-> p, offset |-> offset, coefs |-> coefs_in]

NextEq ==
    \/ EqCheckCoefs
    \/ EqCheckFreq
    \/ EqCheckVolts
    \/ EqFloatCoefs
    \/ EqHysteresis
    \/ EqCompute

SpecEq == InitEq /\ [][NextEq]_vars

-----------------------------------------------------------------------------
(* Claims about the equations *)

\* the call has ended
EqEnded == pc \in {"eq_returned", "eq_raised"}

\* the keys the call reads from its mapping: sbe43 with hyst_check hands the
\* mapping on to sbe43_hysteresis_voltage
Required ==
    use_coefs(eq.func) \cup
      (IF eq.func = "sbe43" /\ eq.hyst_check THEN use_coefs("sbe43_hysteresis_voltage")
       ELSE {})

\* the series is of dtype float and within 0 V .. 5 V
InRange == ~NeedsLog(eq.input, eq.dtype)

VoltsChecked(v) == IF v < 0 \/ v > 5 THEN NaN ELSE Value(v)

\* C22: _check_volts, and every equation that calls it, returns normally for
\* any voltage series, with exactly the values below 0 V or above 5 V
\* replaced by NaN
C22_OutOfRangeVoltsBecomeNaN ==
    (/\ EqEnded
     /\ eq.func \in {"_check_volts", "sbe43", "sbe43_hysteresis_voltage", "sbe_altimeter"}
     /\ Required \ DOMAIN eq.coefs = {})
    => /\ pc = "eq_returned"
       /\ eq.func = "_check_volts"
          => /\ Len(ret[1].data) = Len(eq.input)
             /\ \A i \in 1..Len(eq.input) :
                   Value(ret[1].data[i]) = VoltsChecked(eq.input[i])

\* C23: _check_freq returns normally for any frequency series, with exactly
\* the entries equal to 0 replaced by NaN, the others and the length unchanged
C23_ZeroFreqBecomesNaN ==
    (EqEnded /\ eq.func = "_check_freq")
    => /\ pc = "eq_returned"
       /\ Len(ret[1].data) = Len(eq.input)
       /\ \A i \in 1..Len(eq.input) :
             /\ eq.input[i] = 0 => ret[1].data[i] = NaN
             /\ eq.input[i] # 0 => ret[1].data[i] = Value(eq.input[i])

\* _check_freq has returned a series that had a zero and a non-zero entry
C23_Witness ==
    /\ pc = "eq_returned"
    /\ eq.func = "_check_freq"
    /\ \E i, j \in 1..Len(eq.input) : eq.input[i] = 0 /\ eq.input[j] # 0

\* C24: a conversion equation leaves the coefficient mapping it was given
\* as it was: same keys, same values, same value types
C24_CoefficientsUntouched ==
    (pc \in {"eq", "eq_returned", "eq_raised"} /\ eq.func \in EqFuncs)
    => coefs_in = eq.coefs

\* sbe43_hysteresis_voltage has returned
HystReturned == pc = "eq_returned" /\ eq.func = "sbe43_hysteresis_voltage"

\* the series with its first entry replaced
WithFirst(series, v) == [i \in 1..Len(series) |-> IF i = 1 THEN v ELSE series[i]]

-----------------------------------------------------------------------------
(* parse_xmlcon of src/ctdcal/parsers/sbe911.py *)

\* the SensorArray holds up to MaxPositions sensor positions
MaxPositions == 2
\* the first position holds up to MaxEntries metadata entries
MaxEntries == 3

\* the tags of the metadata entries: one with text, two with nested coefficients
EntryTags == {"SerialNumber", "Coefficients", "CalibrationCoefficients"}

\* the content of the k-th entry of a position: its text, or the dict of its
\* nested coefficient elements; the SensorID attribute counts as entry 0
Content(tag, k) ==
    [coefs |-> k > 0 /\ tag \in {"Coefficients", "CalibrationCoefficients"}, from |-> k]

\* dict[key] = value
Assign(dict, key, value) ==
    [k \in DOMAIN dict \cup {key} |-> IF k = key THEN value ELSE dict[k]]

\* a repeated coefficients tag is stored under the tag itself
KeyOfBare(meta, tag) == tag

\* the key one metadata entry is stored under: a tag holding "Coefficients"
\* that is already a key gets the suffix "2"
KeyOf(meta, tag) ==
    IF Content(tag, 1).coefs /\ tag \in DOMAIN meta THEN tag \o "2" ELSE tag

\* meta after the entries 1..n of the position
RECURSIVE MetaOf(_, _)
MetaOf(entries, n) ==
    IF n = 0
    THEN [k \in {"SensorID"} |-> Content("SensorID", 0)]
    ELSE LET meta == MetaOf(entries, n - 1)
         IN  Assign(meta, KeyOf(meta, entries[n]), Content(entries[n], n))

OtherThanXml ==
    <<hex, errors, lines, lineno, comments, out, datalen, linelen, err, ds, encoded, scans, eng,
      odfVars, sciVars, calls, cnvVars, eqVars>>

\* the deck unit settings and the reported size of the sensor array
XmlDeck ==
    /\ pc = "xml"
    /\ config_dict' = IF xmlcon.size = <<>>
                      THEN [k \in {"Name"} |-> "text"]
                      ELSE [k \in {"Name", "SensorArraySize"} |->
                               IF k = "Name" THEN "text" ELSE xmlcon.size[1]]
    /\ pc' = "xml_positions"
    /\ UNCHANGED <<xmlcon, sensor_dict, positions_done, warning, OtherThanXml>>

\* one pass of the loop over the positions
XmlPosition ==
    /\ pc = "xml_positions"
    /\ positions_done < Len(xmlcon.positions)
    /\ LET position == xmlcon.positions[positions_done + 1]
       IN  sensor_dict' = Assign(sensor_dict, position.index,
                                 MetaOf(position.entries, Len(position.entries)))
    /\ positions_done' = positions_done + 1
    /\ UNCHANGED <<pc, xmlcon, config_dict, warning, OtherThanXml>>

\* a difference of the sizes raises
XmlReturnFatal ==
    /\ pc = "xml_positions"
    /\ positions_done = Len(xmlcon.positions)
    /\ IF "SensorArraySize" \notin DOMAIN config_dict
          \/ Cardinality(DOMAIN sensor_dict) # config_dict["SensorArraySize"]
       THEN pc' = "xml_raised"
       ELSE pc' = "xml_returned"
    /\ UNCHANGED <<xmlcon, config_dict, sensor_dict, positions_done, warning, OtherThanXml>>

\* the comparison of the sizes, and the return
XmlReturn ==
    /\ pc = "xml_positions"
    /\ positions_done = Len(xmlcon.positions)
    /\ IF "SensorArraySize" \notin DOMAIN config_dict
       THEN pc' = "xml_raised" /\ UNCHANGED warning
       ELSE /\ pc' = "xml_returned"
            /\ warning' = (Cardinality(DOMAIN sensor_dict) # config_dict["SensorArraySize"])
    /\ UNCHANGED <<xmlcon, config_dict, sensor_dict, positions_done, OtherThanXml>>

\* the entry lists of the positions after the first
LaterEntries == {<<"SerialNumber">>, <<"Coefficients", "Coefficients">>}

\* an XMLCON whose elements all have text, with the sensor positions numbered
\* upwards from 0 or from 1
InitXml ==
    /\ pc = "xml"
    /\ hex = <<>> /\ errors = "ignore" /\ lines = <<>> /\ lineno = 0 /\ comments = <<>>
    /\ out = <<>> /\ datalen = 0 /\ linelen = <<>> /\ err = NoErr /\ ds = NoDs
    /\ encoded = <<>> /\ scans = <<>> /\ eng = NoEng
    /\ OdfIdle /\ SciIdle /\ CnvIdle /\ EqIdle
    /\ config_dict = <<>> /\ sensor_dict = <<>> /\ positions_done = 0 /\ warning = FALSE
    /\ \E n \in 0..MaxPositions, first \in 0..1,
          size \in {<<>>} \cup {<<k>> : k \in 0..(MaxPositions + 1)} :
          \E entries \in [1..n -> UNION {[1..m -> EntryTags] : m \in 0..MaxEntries}] :
             /\ \A j \in 2..n : entries[j] \in LaterEntries
             /\ xmlcon = [size |-> size,
                          positions |-> [j \in 1..n |->
                                            [index |-> first + j - 1,
                                             entries |-> entries[j]]]]

NextXml ==
    \/ XmlDeck
    \/ XmlPosition
    \/ XmlReturn

SpecXml == InitXml /\ [][NextXml]_vars

-----------------------------------------------------------------------------
(* Claims about parse_xmlcon *)

\* C25: whatever the declared size and the number of parsed entries,
\* parse_xmlcon returns the settings and a sensor map that holds exactly the
\* parsed entries, and warns exactly when the two numbers differ
C25_SizeMismatchOnlyWarns ==
    (/\ pc \in {"xml_returned", "xml_raised"}
     /\ xmlcon.size # <<>>)
    => /\ pc = "xml_returned"
       /\ config_dict["SensorArraySize"] = xmlcon.size[1]
       /\ DOMAIN sensor_dict = {xmlcon.positions[j].index : j \in 1..Len(xmlcon.positions)}
       /\ \A j \in 1..Len(xmlcon.positions) :
             sensor_dict[xmlcon.positions[j].index]
               = MetaOf(xmlcon.positions[j].entries, Len(xmlcon.positions[j].entries))
       /\ warning <=> Len(xmlcon.positions) # xmlcon.size[1]

\* parse_xmlcon has returned with a warning a map that is one entry short of
\* the declared size
C25_Witness ==
    /\ pc = "xml_returned"
    /\ warning
    /\ Len(xmlcon.positions) > 0
    /\ Cardinality(DOMAIN sensor_dict) + 1 = xmlcon.size[1]

\* the ordinals of the entries of the position that carry the tag
Occurrences(entries, tag) == {k \in 1..Len(entries) : entries[k] = tag}

\* the n-th smallest member of a set of numbers
RECURSIVE Nth(_, _)
Nth(S, n) ==
    LET least == CHOOSE x \in S : \A y \in S : x <= y
    IN  IF n = 1 THEN least ELSE Nth(S \ {least}, n - 1)

\* C26: when a coefficients tag occurs a second time in a sensor position, the
\* second group is stored under the tag followed by "2" and the first group
\* stays under the tag itself
C26_SecondGroupGetsSuffix ==
    pc = "xml_returned"
    => \A j \in 1..Len(xmlcon.positions) :
          \A tag \in {"Coefficients", "CalibrationCoefficients"} :
             LET entries == xmlcon.positions[j].entries
                 meta == sensor_dict[xmlcon.positions[j].index]
                 at == Occurrences(entries, tag)
             IN  Cardinality(at) = 2
                 => /\ meta[tag] = Content(tag, Nth(at, 1))
                    /\ (tag \o "2") \in DOMAIN meta
                    /\ meta[tag \o "2"] = Content(tag, Nth(at, 2))

\* a position with a coefficients tag twice, and another entry between them,
\* has been parsed
C26_Witness ==
    /\ pc = "xml_returned"
    /\ \E j \in 1..Len(xmlcon.positions) :
          LET entries == xmlcon.positions[j].entries
          IN  /\ Len(entries) = 3
              /\ entries[1] = "CalibrationCoefficients"
              /\ entries[2] = "SerialNumber"
              /\ entries[3] = "CalibrationCoefficients"

-----------------------------------------------------------------------------
(* convert_science on sensor maps with named user channels *)

\* a map holds up to MaxNamed sensors
MaxNamed == 3

\* a temperature sensor, a free channel, and user polynomial channels with
\* the SensorName texts a file may give them
NamedKinds ==
    {[SensorID |-> "55", SensorName |-> ""],
     [SensorID |-> "27", SensorName |-> ""],
     [SensorID |-> "61", SensorName |-> "PAR"],
     [SensorID |-> "61", SensorName |-> "PAR2"]}

\* convert_science is called on a map of such sensors
InitNames ==
    /\ pc = "science"
    /\ \E n \in 0..MaxNamed :
          \E kinds \in [1..n -> NamedKinds] :
             /\ xmlcon_sensors = [i \in 1..n |->
                                     Sensor(i - 1, kinds[i].SensorID, kinds[i].SensorName, TRUE)]
             /\ engineering = [c \in 1..n |-> Eng(c - 1)]
    /\ sensor_info = <<>>
    /\ f_s = 0
    /\ freq_out = <<>>
    /\ volt_out = <<>>
    /\ SciIdle /\ EqIdle /\ XmlIdle
    /\ queue_metadata = <<>>
    /\ processed_data = <<>>
    /\ t_array = <<>>
    /\ p_array = <<>>
    /\ c_array = <<>>
    /\ k_array = <<>>
    /\ scans = <<>>
    /\ eng = NoEng
    /\ hex = <<>>
    /\ errors = "ignore"
    /\ lines = <<>>
    /\ lineno = 0
    /\ comments = <<>>
    /\ out = <<>>
    /\ datalen = 0
    /\ linelen = <<>>
    /\ err = NoErr
    /\ ds = NoDs
    /\ encoded = <<>>

NextNames ==
    \/ SciPrepare
    \/ SciConvert
    \/ SciAttach

SpecNames == InitNames /\ [][NextNames]_vars

-----------------------------------------------------------------------------
(* Claims about the names and the visits of the schedulers *)

\* the passes of the main loop of convert_science, among those done, whose
\* assignment to science_temp writes column c: the assignment selects the
\* columns by the name of the channel of the pass
Writes(c) ==
    {r \in 1..rows_done :
        science_temp.channel[sensor_df[r].channel + 1] = science_temp.channel[c]}

\* the items of the processed results that came from list index id
ProcessedOf(id) == {k \in 1..Len(processed_data) : processed_data[k].list_id = id}

\* C27: cnv_handler_2 ends with its queue empty and every channel, and the
\* salinity item, in the processed results exactly once; convert_science
\* ends with every named science column written exactly once
C27_EveryChannelVisitedOnce ==
    /\ pc = "cnv_returned"
       => /\ queue_metadata = <<>>
          /\ Len(processed_data) = Len(sensor_info) + 1
          /\ \A id \in (0..(Len(sensor_info) - 1)) \cup {SalinityListId} :
                Cardinality(ProcessedOf(id)) = 1
    /\ pc = "science_returned"
       => \A c \in 1..Len(science_temp.channel) : Cardinality(Writes(c)) = 1

\* C30: the names convert_science gives the channels of a sensor map are
\* pairwise distinct, also the names taken from SensorName
C30_NewNamesDistinct ==
    pc \in {"science_loop", "science_returned"}
    => \A i, j \in 1..Len(sensor_df) :
          i # j => sensor_df[i].new_names # sensor_df[j].new_names

====
